---- MODULE Spec2Model ----
(***************************************************************************)
(* Agent runtime of the wealth-navigator backend: the tool registry, the   *)
(* bounded tool-calling loop of BaseAgent (run and run_stream), the        *)
(* Orchestrator's routing (process and process_stream) and the two chat    *)
(* endpoints (WebSocket and SSE) that drive a turn.                        *)
(*                                                                         *)
(* Text is a sequence of one-character strings; a streamed response is a   *)
(* sequence of chunks, each chunk a (possibly empty) text fragment.        *)
(***************************************************************************)
EXTENDS Integers, Sequences, FiniteSets, TLC

VARIABLES
    agent_registry,   \* registry.py _agent_registry: names of registered agents
    max_tool_rounds,  \* BaseAgent.max_tool_rounds of the configured agents
    tool_names,       \* BaseAgent.tool_names of the configured agents
    context,          \* AgentContext of the turn: session_messages, metadata
    script,           \* responses the Completion Gateway has given, in call order
    run,              \* activation record of BaseAgent.run
    stm,              \* activation record of BaseAgent.run_stream
    turn,             \* activation record of the entry point driving the turn
    client,           \* events delivered to the client of the endpoint
    stored,           \* messages persisted by MemoryManager.save_message
    summaries,        \* ConversationSummary rows, in creation order
    mem,              \* last call of a MemoryManager method and its result
    pipeline,         \* activation record of NLPPipeline.process
    dispatch,         \* last call into the tool registry and its outcome
    clients,          \* the clients table: its rows and the number ever created
    http,             \* last request to the clients API and its response
    sessions,         \* activation records of concurrent chat turns, by connection
    conversations,    \* Conversation rows: the user owning each conversation
    attempt           \* activation record of openai_client.chat_completion

vars == <<agent_registry, max_tool_rounds, tool_names, context, script,
          run, stm, turn, client, stored, summaries, mem, pipeline, dispatch,
          clients, http, sessions, conversations, attempt>>

\* the state outside the agent runtime and the chat endpoints
outside == <<summaries, mem, pipeline, dispatch, clients, http,
             sessions, conversations, attempt>>

(***************************************************************************)
(* The components outside the agent runtime at rest                        *)
(***************************************************************************)
NoMemCall == [op |-> "none"]
NoPipeline == [pc |-> "idle"]
NoDispatch == [op |-> "none"]
NoReply == [op |-> "none"]
NoClients == [rows |-> <<>>, created |-> 0]
NoSessions == <<>>
NoConversations == <<>>
NoAttempt == [pc |-> "idle"]

OutsideIdle ==
    /\ summaries = <<>>
    /\ mem = NoMemCall
    /\ pipeline = NoPipeline
    /\ dispatch = NoDispatch
    /\ clients = NoClients
    /\ http = NoReply
    /\ sessions = NoSessions
    /\ conversations = NoConversations
    /\ attempt = NoAttempt

(***************************************************************************)
(* Bounds                                                                  *)
(***************************************************************************)
MaxRounds == 2

(***************************************************************************)
(* Text helpers                                                            *)
(***************************************************************************)
RECURSIVE Flatten(_)
Flatten(chunks) ==
    IF chunks = <<>> THEN <<>> ELSE Head(chunks) \o Flatten(Tail(chunks))

RECURSIVE Chars(_)
Chars(content) ==
    IF content = <<>> THEN <<>> ELSE <<(<<Head(content)>>)>> \o Chars(Tail(content))

(***************************************************************************)
(* Tool registry (agents/tools/__init__.py)                                *)
(***************************************************************************)
tool_registry == {"get_client_profile", "check_kyc_status"}

\* declared parameters of the registered callables, the injected db included
ToolParams(name) ==
    IF name = "get_client_profile" THEN {"client_id", "db"} ELSE {"advisor_id", "db"}

ArgsClient  == "{\"client_id\": \"c1\"}"
ArgsAdvisor == "{\"advisor_id\": \"a1\"}"
ArgsBoom    == "{\"client_id\": \"boom\"}"
ArgsEmpty   == "{}"
ArgsArray   == "[1]"
ArgsBroken  == "{oops"
ArgsWithDb  == "{\"client_id\": \"c1\", \"db\": \"forged\"}"

\* json.loads on the argument strings the gateway proposes
json_loads(s) ==
    CASE s = ArgsClient  -> [ok |-> TRUE,  is_dict |-> TRUE,  map |-> [client_id |-> "c1"]]
      [] s = ArgsAdvisor -> [ok |-> TRUE,  is_dict |-> TRUE,  map |-> [advisor_id |-> "a1"]]
      [] s = ArgsBoom    -> [ok |-> TRUE,  is_dict |-> TRUE,  map |-> [client_id |-> "boom"]]
      [] s = ArgsWithDb  -> [ok |-> TRUE,  is_dict |-> TRUE,
                             map |-> [client_id |-> "c1", db |-> "forged"]]
      [] s = ArgsEmpty   -> [ok |-> TRUE,  is_dict |-> TRUE,  map |-> <<>>]
      [] s = ArgsArray   -> [ok |-> TRUE,  is_dict |-> FALSE, map |-> <<>>]
      [] OTHER           -> [ok |-> FALSE, is_dict |-> FALSE, map |-> <<>>]

MergeArgsArgumentsWin(arguments, kwargs) ==
    [k \in (DOMAIN arguments) \cup (DOMAIN kwargs) |->
        IF k \in DOMAIN arguments THEN arguments[k] ELSE kwargs[k]]

\* {**arguments, **kwargs}: the right operand wins on a key collision
MergeArgs(arguments, kwargs) ==
    [k \in (DOMAIN arguments) \cup (DOMAIN kwargs) |->
        IF k \in DOMAIN kwargs THEN kwargs[k] ELSE arguments[k]]

\* await func(**all_args): Python binds the keywords to the declared
\* parameters (all of them required here), then the body runs; the body
\* fails on the data store for the client id "boom"
ToolFunction(name, all_args) ==
    IF DOMAIN all_args # ToolParams(name)
    THEN [raised |-> TRUE, invoked |-> FALSE, value |-> "TypeError"]
    ELSE IF "client_id" \in DOMAIN all_args /\ all_args["client_id"] = "boom"
         THEN [raised |-> TRUE, invoked |-> TRUE, value |-> "DBError"]
         ELSE [raised |-> FALSE, invoked |-> TRUE, value |-> name]

get_tool_definitionsInRegistryOrder(names) ==
    SelectSeq(<<"check_kyc_status", "get_client_profile">>,
              LAMBDA n : \E i \in 1..Len(names) : names[i] = n)

\* one definition per entry of names that is registered, in the order of
\* names (a definition is stood for by its function name)
get_tool_definitions(names) ==
    SelectSeq(names, LAMBDA n : n \in tool_registry)

\* what a call of execute_tool comes to: the exception raised or the value
\* returned, whether func(**all_args) was reached (called) and with which
\* keyword map, and whether the callable's body ran (invoked)
Outcome(raised, value, called, all_args, invoked) ==
    [raised |-> raised, value |-> value, called |-> called,
     all_args |-> all_args, invoked |-> invoked]

execute_tool(name, arguments, kwargs) ==
    IF name \notin tool_registry
    THEN Outcome(TRUE, "Unknown tool", FALSE, <<>>, FALSE)
    ELSE LET parsed == json_loads(arguments) IN
         IF ~parsed.ok
         THEN Outcome(TRUE, "JSONDecodeError", FALSE, <<>>, FALSE)
         ELSE IF ~parsed.is_dict
              THEN Outcome(TRUE, "TypeError", FALSE, <<>>, FALSE)
              ELSE LET all_args == MergeArgs(parsed.map, kwargs)
                       done     == ToolFunction(name, all_args)
                   IN Outcome(done.raised, done.value, TRUE, all_args, done.invoked)

(***************************************************************************)
(* Completion Gateway: the responses a call can get                        *)
(***************************************************************************)
Inv(id, name, args) == [id |-> id, name |-> name, args |-> args]

ToolCallLists ==
    { <<Inv("call_1", "get_client_profile", ArgsClient)>>,
      <<Inv("call_1", "ghost_tool", ArgsClient),
        Inv("call_2", "get_client_profile", ArgsClient)>>,
      <<Inv("call_1", "get_client_profile", ArgsBroken),
        Inv("call_2", "get_client_profile", ArgsBoom)>>,
      <<Inv("call_1", "check_kyc_status", ArgsAdvisor)>> }

ChunkLists == { <<>>, <<(<<"a">>)>>, <<(<<"a">>), <<>>, <<"b", "c">>>> }

Response(fail, tool_calls, chunks) ==
    [fail |-> fail, tool_calls |-> tool_calls, chunks |-> chunks]

Responses ==
    { Response(FALSE, <<>>, c) : c \in ChunkLists }
    \cup { Response(FALSE, tc, <<>>) : tc \in ToolCallLists }
    \cup { Response(FALSE, <<Inv("call_1", "get_client_profile", ArgsClient)>>,
                    <<(<<"a">>)>>) }
    \cup { Response(TRUE, <<>>, <<>>), Response(TRUE, <<>>, <<(<<"a">>)>>) }

\* the n-th call of the turn: the recorded response if the script has one,
\* a fresh one otherwise
GatewayCall(n, resp) ==
    /\ resp \in Responses
    /\ IF n <= Len(script)
       THEN resp = script[n] /\ UNCHANGED script
       ELSE script' = Append(script, resp)

(***************************************************************************)
(* BaseAgent (agents/base_agent.py)                                        *)
(***************************************************************************)
Db == [db |-> "session"]

NoResult ==
    [content |-> <<>>, agent_name |-> "", tool_calls_made |-> <<>>,
     rounds |-> 0, forced_completion |-> FALSE]

IdleRun ==
    [pc |-> "idle", agent |-> "", round_num |-> 0, messages |-> <<>>,
     tools |-> <<>>, pending |-> <<>>, tool_calls_made |-> <<>>,
     calls |-> <<>>, dispatched |-> <<>>, result |-> NoResult]

IdleStream ==
    [pc |-> "idle", agent |-> "", round_num |-> 0, messages |-> <<>>,
     tools |-> <<>>, pending |-> <<>>, tool_calls_made |-> <<>>,
     calls |-> <<>>, dispatched |-> <<>>, events |-> <<>>,
     chunks |-> <<>>, fail_after |-> FALSE, content |-> <<>>]

_build_messagesUserFirst(message, ctx) ==
    <<[role |-> "system", content |-> "system_prompt"]>>
    \o <<[role |-> "user", content |-> message]>>
    \o ctx.session_messages

_build_messages(message, ctx) ==
    <<[role |-> "system", content |-> "system_prompt"]>>
    \o ctx.session_messages
    \o <<[role |-> "user", content |-> message]>>

\* tools = get_tool_definitions(self.tool_names) if self.tool_names else None
\* (None and [] are both falsy wherever tools is read, so both are <<>>)
AgentTools == IF tool_names # <<>> THEN get_tool_definitions(tool_names) ELSE <<>>

\* choice.message.model_dump() of a response that proposes tool calls
AssistantMessage(resp) ==
    [role |-> "assistant", content |-> Flatten(resp.chunks),
     tool_calls |-> resp.tool_calls]

\* the try/except around execute_tool and the tool-role message
ToolMessage(tool_call, outcome) ==
    [role |-> "tool", tool_call_id |-> tool_call.id,
     content |-> [error |-> outcome.raised, value |-> outcome.value]]

DispatchRecord(tool_call, outcome) ==
    [id |-> tool_call.id, name |-> tool_call.name,
     raised |-> outcome.raised, invoked |-> outcome.invoked]

CallRecord(tools, stream) == [tools |-> tools, stream |-> stream]

\* ---- run ----------------------------------------------------------------
RunBegin(agent, message) ==
    /\ run.pc = "idle"
    /\ run' = [IdleRun EXCEPT !.pc = "call", !.agent = agent,
                              !.messages = _build_messages(message, context),
                              !.tools = AgentTools]
    /\ UNCHANGED script

RunAfterRoundOffByOne(r) ==
    IF r.round_num + 1 <= max_tool_rounds
    THEN [r EXCEPT !.pc = "call", !.round_num = r.round_num + 1]
    ELSE [r EXCEPT !.pc = "forced", !.round_num = r.round_num + 1]

RunAfterRound(r) ==
    IF r.round_num + 1 < max_tool_rounds
    THEN [r EXCEPT !.pc = "call", !.round_num = r.round_num + 1]
    ELSE [r EXCEPT !.pc = "forced", !.round_num = r.round_num + 1]

RunRound ==
    /\ run.pc = "call"
    /\ \E resp \in Responses :
        /\ GatewayCall(Len(run.calls) + 1, resp)
        /\ LET called == [run EXCEPT !.calls = Append(@, CallRecord(run.tools, FALSE))] IN
           IF resp.fail
           THEN run' = [called EXCEPT !.pc = "raised"]
           ELSE IF resp.tool_calls # <<>>
                THEN run' = [called EXCEPT !.pc = "dispatch",
                                           !.messages = Append(@, AssistantMessage(resp)),
                                           !.pending = resp.tool_calls]
                ELSE run' = [called EXCEPT
                               !.pc = "returned",
                               !.result = [content |-> Flatten(resp.chunks),
                                           agent_name |-> run.agent,
                                           tool_calls_made |-> run.tool_calls_made,
                                           rounds |-> run.round_num + 1,
                                           forced_completion |-> FALSE]]

RunDispatchUncaught ==
    /\ run.pc = "dispatch"
    /\ LET tool_call == Head(run.pending)
           outcome   == execute_tool(tool_call.name, tool_call.args, Db)
           stepped   == [run EXCEPT
                           !.tool_calls_made = Append(@, tool_call.name),
                           !.dispatched = Append(@, DispatchRecord(tool_call, outcome)),
                           !.messages = Append(@, ToolMessage(tool_call, outcome)),
                           !.pending = Tail(@)]
       IN run' = IF outcome.raised
                 THEN [run EXCEPT !.pc = "raised",
                                  !.tool_calls_made = Append(@, tool_call.name),
                                  !.dispatched = Append(@, DispatchRecord(tool_call, outcome))]
                 ELSE IF stepped.pending = <<>> THEN RunAfterRound(stepped) ELSE stepped
    /\ UNCHANGED script

RunDispatch ==
    /\ run.pc = "dispatch"
    /\ LET tool_call == Head(run.pending)
           outcome   == execute_tool(tool_call.name, tool_call.args, Db)
           stepped   == [run EXCEPT
                           !.tool_calls_made = Append(@, tool_call.name),
                           !.dispatched = Append(@, DispatchRecord(tool_call, outcome)),
                           !.messages = Append(@, ToolMessage(tool_call, outcome)),
                           !.pending = Tail(@)]
       IN run' = IF stepped.pending = <<>> THEN RunAfterRound(stepped) ELSE stepped
    /\ UNCHANGED script

RunForcedWithTools ==
    /\ run.pc = "forced"
    /\ \E resp \in Responses :
        /\ GatewayCall(Len(run.calls) + 1, resp)
        /\ LET called == [run EXCEPT !.calls = Append(@, CallRecord(run.tools, FALSE))] IN
           IF resp.fail
           THEN run' = [called EXCEPT !.pc = "raised"]
           ELSE run' = [called EXCEPT
                          !.pc = "returned",
                          !.result = [content |-> Flatten(resp.chunks),
                                      agent_name |-> run.agent,
                                      tool_calls_made |-> run.tool_calls_made,
                                      rounds |-> max_tool_rounds,
                                      forced_completion |-> TRUE]]

RunForced ==
    /\ run.pc = "forced"
    /\ \E resp \in Responses :
        /\ GatewayCall(Len(run.calls) + 1, resp)
        /\ LET called == [run EXCEPT !.calls = Append(@, CallRecord(<<>>, FALSE))] IN
           IF resp.fail
           THEN run' = [called EXCEPT !.pc = "raised"]
           ELSE run' = [called EXCEPT
                          !.pc = "returned",
                          !.result = [content |-> Flatten(resp.chunks),
                                      agent_name |-> run.agent,
                                      tool_calls_made |-> run.tool_calls_made,
                                      rounds |-> max_tool_rounds,
                                      forced_completion |-> TRUE]]

\* ---- run_stream ---------------------------------------------------------
Yield(s, event) == [s EXCEPT !.events = Append(@, event)]

StatusEvent(agent, func_name) ==
    [type |-> "agent_status", status |-> "tool_call", agent |-> agent,
     message |-> func_name]

TokenEvent(token) == [type |-> "stream_token", token |-> token]

EndEvent(content, agent, tool_calls) ==
    [type |-> "stream_end", content |-> content, agent |-> agent,
     tool_calls |-> tool_calls]

StreamBegin(agent, message) ==
    /\ stm.pc = "idle"
    /\ stm' = [IdleStream EXCEPT !.pc = "call", !.agent = agent,
                                 !.messages = _build_messages(message, context),
                                 !.tools = AgentTools]
    /\ UNCHANGED script

\* the buffered branch: tools and round_num < max_tool_rounds - 1
StreamBuffered(s) == s.tools # <<>> /\ s.round_num < max_tool_rounds - 1

StreamRound ==
    /\ stm.pc = "call"
    /\ \E resp \in Responses :
        /\ GatewayCall(Len(stm.calls) + 1, resp)
        /\ IF StreamBuffered(stm)
           THEN LET called == [stm EXCEPT !.calls = Append(@, CallRecord(stm.tools, FALSE))] IN
                IF resp.fail
                THEN stm' = [called EXCEPT !.pc = "raised"]
                ELSE IF resp.tool_calls # <<>>
                     THEN stm' = [called EXCEPT !.pc = "announce",
                                                !.messages = Append(@, AssistantMessage(resp)),
                                                !.pending = resp.tool_calls]
                     ELSE stm' = [called EXCEPT !.pc = "emit",
                                                !.content = Flatten(resp.chunks),
                                                !.chunks = Chars(Flatten(resp.chunks))]
           ELSE LET called == [stm EXCEPT !.calls = Append(@, CallRecord(<<>>, TRUE))] IN
                IF resp.fail /\ resp.chunks = <<>>
                THEN stm' = [called EXCEPT !.pc = "raised"]
                ELSE stm' = [called EXCEPT !.pc = "streaming",
                                           !.content = <<>>,
                                           !.chunks = resp.chunks,
                                           !.fail_after = resp.fail]

StreamAnnounceUnrecorded ==
    /\ stm.pc = "announce"
    /\ stm' = Yield([stm EXCEPT !.pc = "execute"],
                    StatusEvent(stm.agent, Head(stm.pending).name))
    /\ UNCHANGED script

\* tool_calls_made.append(func_name); yield agent_status
StreamAnnounce ==
    /\ stm.pc = "announce"
    /\ LET tool_call == Head(stm.pending) IN
       stm' = Yield([stm EXCEPT !.pc = "execute",
                                !.tool_calls_made = Append(@, tool_call.name)],
                    StatusEvent(stm.agent, tool_call.name))
    /\ UNCHANGED script

StreamAfterRound(s) ==
    IF s.round_num + 1 < max_tool_rounds
    THEN [s EXCEPT !.pc = "call", !.round_num = s.round_num + 1]
    ELSE [s EXCEPT !.pc = "exhausted", !.round_num = s.round_num + 1]

StreamExecute ==
    /\ stm.pc = "execute"
    /\ LET tool_call == Head(stm.pending)
           outcome   == execute_tool(tool_call.name, tool_call.args, Db)
           stepped   == [stm EXCEPT
                           !.dispatched = Append(@, DispatchRecord(tool_call, outcome)),
                           !.messages = Append(@, ToolMessage(tool_call, outcome)),
                           !.pending = Tail(@)]
       IN stm' = IF stepped.pending = <<>> THEN StreamAfterRound(stepped)
                 ELSE [stepped EXCEPT !.pc = "announce"]
    /\ UNCHANGED script

\* for char in content: yield stream_token; then stream_end with content
StreamEmit ==
    /\ stm.pc = "emit"
    /\ stm' = IF stm.chunks # <<>>
              THEN Yield([stm EXCEPT !.chunks = Tail(@)], TokenEvent(Head(stm.chunks)))
              ELSE Yield([stm EXCEPT !.pc = "done"],
                         EndEvent(stm.content, stm.agent, stm.tool_calls_made))
    /\ UNCHANGED script

StreamChunkSwallowsError ==
    /\ stm.pc = "streaming"
    /\ stm' = IF stm.chunks # <<>>
              THEN LET token == Head(stm.chunks) IN
                   IF token # <<>>
                   THEN Yield([stm EXCEPT !.chunks = Tail(@), !.content = @ \o token],
                              TokenEvent(token))
                   ELSE [stm EXCEPT !.chunks = Tail(@)]
              ELSE Yield([stm EXCEPT !.pc = "done"],
                         EndEvent(stm.content, stm.agent, stm.tool_calls_made))
    /\ UNCHANGED script

\* async for chunk in stream: chunks without content are skipped; the
\* stream may break off with an error after the chunks it delivered
StreamChunk ==
    /\ stm.pc = "streaming"
    /\ stm' = IF stm.chunks # <<>>
              THEN LET token == Head(stm.chunks) IN
                   IF token # <<>>
                   THEN Yield([stm EXCEPT !.chunks = Tail(@), !.content = @ \o token],
                              TokenEvent(token))
                   ELSE [stm EXCEPT !.chunks = Tail(@)]
              ELSE IF stm.fail_after
                   THEN [stm EXCEPT !.pc = "raised"]
                   ELSE Yield([stm EXCEPT !.pc = "done"],
                              EndEvent(stm.content, stm.agent, stm.tool_calls_made))
    /\ UNCHANGED script

(***************************************************************************)
(* Agent-level specification: one agent executes run and then run_stream   *)
(* on the same message, context and gateway responses.                     *)
(***************************************************************************)
ToolNameConfigs ==
    { <<>>, <<"ghost_tool">>, <<"get_client_profile", "ghost_tool">> }

SessionWindows ==
    { <<>>, <<[role |-> "user", content |-> "earlier"],
              [role |-> "assistant", content |-> "reply"]>> }

\* an nlp_result argument: None / {} (given = FALSE) or a dict that may lack
\* "intent", and whose intent may lack "name" or "confidence"; confidence is
\* in hundredths
NoNlp ==
    [given |-> FALSE, has_intent |-> FALSE, has_name |-> FALSE, name |-> "",
     has_confidence |-> FALSE, confidence |-> 0]

Nlp(name, confidence) ==
    [given |-> TRUE, has_intent |-> TRUE, has_name |-> TRUE, name |-> name,
     has_confidence |-> TRUE, confidence |-> confidence]

EmptyMetadata == [forced_agent |-> "", nlp_result |-> NoNlp, intent |-> ""]

NoRequest == [session_messages |-> <<>>, metadata |-> EmptyMetadata]

NoTurn ==
    [pc |-> "idle", entry |-> "", message |-> "", nlp |-> NoNlp,
     prefix |-> <<>>, orch |-> "idle", consumed |-> 0, full_content |-> <<>>,
     agent_name |-> "", tool_calls |-> <<>>, error |-> "",
     conversation_id |-> "", agent_type |-> ""]

InitAgent ==
    /\ agent_registry = {}
    /\ max_tool_rounds \in 1..MaxRounds
    /\ tool_names \in ToolNameConfigs
    /\ context \in { [NoRequest EXCEPT !.session_messages = w] : w \in SessionWindows }
    /\ script = <<>>
    /\ run = IdleRun
    /\ stm = IdleStream
    /\ turn = NoTurn
    /\ client = <<>>
    /\ stored = <<>>
    /\ OutsideIdle

RunDone == run.pc \in {"returned", "raised"}
StreamDone == stm.pc \in {"done", "raised", "exhausted"}

AgentFrame == UNCHANGED <<agent_registry, max_tool_rounds, tool_names, context,
                          turn, client, stored, outside>>

ARunBegin    == RunBegin("advisor_assistant", "hello") /\ UNCHANGED stm /\ AgentFrame
ARunRound    == RunRound /\ UNCHANGED stm /\ AgentFrame
ARunDispatch == RunDispatch /\ UNCHANGED stm /\ AgentFrame
ARunForced   == RunForced /\ UNCHANGED stm /\ AgentFrame

AStreamBegin    == RunDone /\ StreamBegin("advisor_assistant", "hello")
                   /\ UNCHANGED run /\ AgentFrame
AStreamRound    == StreamRound /\ UNCHANGED run /\ AgentFrame
AStreamAnnounce == StreamAnnounce /\ UNCHANGED run /\ AgentFrame
AStreamExecute  == StreamExecute /\ UNCHANGED run /\ AgentFrame
AStreamEmit     == StreamEmit /\ UNCHANGED run /\ AgentFrame
AStreamChunk    == StreamChunk /\ UNCHANGED run /\ AgentFrame

NextAgent ==
    \/ ARunBegin \/ ARunRound \/ ARunDispatch \/ ARunForced
    \/ AStreamBegin \/ AStreamRound \/ AStreamAnnounce \/ AStreamExecute
    \/ AStreamEmit \/ AStreamChunk

SpecAgent == InitAgent /\ [][NextAgent]_vars

SpecAgentFair == SpecAgent /\ WF_vars(NextAgent)

(***************************************************************************)
(* Properties of the agent runtime                                         *)
(***************************************************************************)
IsPrefix(a, b) == Len(a) <= Len(b) /\ \A i \in 1..Len(a) : a[i] = b[i]

Last(seq) == seq[Len(seq)]

ProposesTools(resp) == ~resp.fail /\ resp.tool_calls # <<>>

\* the first max_tool_rounds responses to run all propose tool calls
AllRoundsProposeTools ==
    /\ Len(run.calls) >= max_tool_rounds
    /\ \A i \in 1..max_tool_rounds : ProposesTools(script[i])

RunCallsOfferingTools == {i \in DOMAIN run.calls : run.calls[i].tools # <<>>}

C1_Bound ==
    /\ Len(run.calls) <= max_tool_rounds + 1
    /\ Cardinality(RunCallsOfferingTools) <= max_tool_rounds
    /\ (RunDone /\ AllRoundsProposeTools) => Len(run.calls) = max_tool_rounds + 1
    /\ Len(run.calls) = max_tool_rounds + 1 => RunDone

\* C1: run makes at most R gateway calls that offer tools and at most R + 1
\* gateway calls in all; when all R rounds propose tool calls it makes exactly
\* one more call and is then finished; and every run terminates.
C1_RunBoundedAndTerminates == []C1_Bound /\ <>RunDone

C1_Witness ==
    /\ run.pc = "returned"
    /\ run.tools # <<>>
    /\ AllRoundsProposeTools
    /\ Len(run.calls) = max_tool_rounds + 1

\* C2: when run has returned, forced_completion is set exactly when each of
\* the first R responses proposed a tool call; in that case the (R+1)-th call
\* carried no tool catalog and its text is the returned content.
C2_ForcedCompletion ==
    run.pc = "returned" =>
        /\ run.result.forced_completion <=> AllRoundsProposeTools
        /\ run.result.forced_completion =>
             /\ Len(run.calls) = max_tool_rounds + 1
             /\ Last(run.calls).tools = <<>>
             /\ run.result.content = Flatten(script[max_tool_rounds + 1].chunks)

C2_Witness ==
    /\ run.pc = "returned"
    /\ run.result.forced_completion
    /\ run.tools # <<>>
    /\ max_tool_rounds = 2
    /\ run.result.content # <<>>

ToolMessages(messages) == SelectSeq(messages, LAMBDA m : m.role = "tool")

RECURSIVE ProposedCount(_)
ProposedCount(messages) ==
    IF messages = <<>> THEN 0
    ELSE (IF "tool_calls" \in DOMAIN Head(messages)
          THEN Len(Head(messages).tool_calls) ELSE 0)
         + ProposedCount(Tail(messages))

\* one tool-role message per dispatch, an error payload exactly for the
\* failed ones, and every proposed invocation dispatched or still pending
DispatchAccounted(r) ==
    /\ Len(ToolMessages(r.messages)) = Len(r.dispatched)
    /\ \A i \in 1..Len(r.dispatched) :
         /\ ToolMessages(r.messages)[i].tool_call_id = r.dispatched[i].id
         /\ ToolMessages(r.messages)[i].content.error = r.dispatched[i].raised
    /\ ProposedCount(r.messages) = Len(r.dispatched) + Len(r.pending)
    /\ r.pc = "raised" => script[Len(r.calls)].fail

\* a dispatch step that failed leaves the loop in the same round's dispatch
\* or at the next gateway call
FailedDispatchContinues(r, rNext, dispatching, nextPcs) ==
    (/\ r.pc \in dispatching
     /\ Len(rNext.dispatched) = Len(r.dispatched) + 1
     /\ Last(rNext.dispatched).raised)
    => /\ rNext.pending = Tail(r.pending)
       /\ IF rNext.pending # <<>> THEN rNext.pc \in dispatching \cup {"announce"}
          ELSE rNext.pc \in nextPcs

\* C3: in run and run_stream a failed dispatch (unknown tool, unparsable
\* arguments, raising callable) appends exactly one tool-role message with an
\* error payload, the rest of the round is still dispatched, the loop goes on
\* to the next gateway call, and the turn is never ended by it.
C3_DispatchFailureContained ==
    /\ [](DispatchAccounted(run) /\ DispatchAccounted(stm))
    /\ [][/\ FailedDispatchContinues(run, run', {"dispatch"}, {"call", "forced"})
          /\ FailedDispatchContinues(stm, stm', {"execute"}, {"call"})]_vars

C3_Witness ==
    /\ run.pc = "returned"
    /\ \E i \in 1..Len(run.dispatched) :
         /\ run.dispatched[i].raised
         /\ i < Len(run.dispatched)
    /\ \E i \in 1..Len(stm.dispatched) : stm.dispatched[i].raised
    /\ stm.pc = "done"

StreamEnds(events) == SelectSeq(events, LAMBDA e : e.type = "stream_end")

\* C4: run_stream offers tools in the same rounds as run, dispatches the same
\* invocations in the same order, and ends with the content run returns.
C4_StreamMirrorsRun ==
    (run.pc = "returned" /\ stm.pc = "done") =>
        /\ Len(stm.calls) = Len(run.calls)
        /\ \A i \in 1..Len(stm.calls) : stm.calls[i].tools = run.calls[i].tools
        /\ stm.dispatched = run.dispatched
        /\ Last(stm.events).content = run.result.content

\* C8: a failed gateway call ends run and run_stream with the error raised:
\* no AgentResponse, no stream-end event, no text in place of the error, and
\* no further gateway call or tool dispatch.
C8_Inv ==
    /\ (run.calls # <<>> /\ script[Len(run.calls)].fail) =>
          run.pc = "raised" /\ run.result = NoResult
    /\ run.pc = "returned" => ~script[Len(run.calls)].fail
    /\ (stm.calls # <<>> /\ script[Len(stm.calls)].fail) =>
          /\ stm.pc \in {"raised", "streaming"}
          /\ StreamEnds(stm.events) = <<>>
    /\ stm.pc = "done" => ~script[Len(stm.calls)].fail

C8_GatewayErrorIsFatal ==
    /\ []C8_Inv
    /\ [][/\ run.pc = "raised" => run' = run
          /\ stm.pc = "raised" => stm' = stm
          /\ (stm.pc = "streaming" /\ stm.fail_after) =>
                (stm'.calls = stm.calls /\ stm'.dispatched = stm.dispatched)]_vars

C8_Witness ==
    /\ run.pc = "raised"
    /\ Len(run.calls) >= 2
    /\ run.dispatched # <<>>
    /\ stm.pc = "raised"
    /\ Last(stm.calls).stream
    /\ stm.events # <<>>

EventRank(e) ==
    CASE e.type = "agent_status" -> 0
      [] e.type = "stream_token" -> 1
      [] OTHER -> 2

StatusNames(events) ==
    LET st == SelectSeq(events, LAMBDA e : e.type = "agent_status")
    IN [i \in 1..Len(st) |-> st[i].message]

TokenChunks(events) ==
    LET tk == SelectSeq(events, LAMBDA e : e.type = "stream_token")
    IN [i \in 1..Len(tk) |-> tk[i].token]

C10_WitnessBufferedText ==
    /\ stm.pc = "done"
    /\ ~Last(stm.calls).stream
    /\ Len(TokenChunks(stm.events)) >= 2

(***************************************************************************)
(* Agent registry (agents/registry.py, agents/__init__.py)                 *)
(***************************************************************************)
None == ""

InitializedAgents ==
    {"portfolio_intelligence", "cio_strategy", "advisor_assistant",
     "compliance_sentinel", "tax_optimizer", "meeting_intelligence",
     "growth_engine", "funding_risk"}

get_agent(name) == IF name \in agent_registry THEN name ELSE None

(***************************************************************************)
(* Orchestrator (agents/orchestrator.py)                                   *)
(***************************************************************************)
INTENT_AGENT_MAP ==
    [portfolio_analysis  |-> "portfolio_intelligence",
     risk_assessment     |-> "portfolio_intelligence",
     rebalance_request   |-> "portfolio_intelligence",
     client_lookup       |-> "advisor_assistant",
     general_chat        |-> "advisor_assistant",
     meeting_prep        |-> "meeting_intelligence",
     compliance_check    |-> "compliance_sentinel",
     tax_optimization    |-> "tax_optimizer",
     funding_analysis    |-> "funding_risk",
     order_management    |-> "advisor_assistant",
     lead_management     |-> "growth_engine",
     campaign_creation   |-> "growth_engine",
     churn_prediction    |-> "growth_engine",
     report_generation   |-> "report_analytics",
     task_management     |-> "task_workflow",
     task_creation       |-> "task_workflow",
     analytics_query     |-> "report_analytics",
     communication_draft |-> "communications",
     email_request       |-> "communications",
     goal_tracking       |-> "goal_planning",
     financial_planning  |-> "goal_planning",
     client_onboarding   |-> "onboarding",
     document_collection |-> "onboarding"]

default_agent == "advisor_assistant"

\* the confidence threshold 0.4, in hundredths
ConfidenceThreshold == 40

select_agent(intent) ==
    IF intent \in DOMAIN INTENT_AGENT_MAP THEN INTENT_AGENT_MAP[intent]
    ELSE default_agent

ClassifiedIntentAtMost(nlp_result) ==
    IF nlp_result.given /\ nlp_result.has_intent
    THEN LET name == IF nlp_result.has_name THEN nlp_result.name ELSE "general_chat"
             confidence == IF nlp_result.has_confidence THEN nlp_result.confidence ELSE 0
         IN IF confidence <= ConfidenceThreshold THEN "general_chat" ELSE name
    ELSE "general_chat"

\* intent = "general_chat"; if nlp_result and "intent" in nlp_result: ...
ClassifiedIntent(nlp_result) ==
    IF nlp_result.given /\ nlp_result.has_intent
    THEN LET name == IF nlp_result.has_name THEN nlp_result.name ELSE "general_chat"
             confidence == IF nlp_result.has_confidence THEN nlp_result.confidence ELSE 0
         IN IF confidence < ConfidenceThreshold THEN "general_chat" ELSE name
    ELSE "general_chat"

ResolveAgentNoFallback(agent_name) == get_agent(agent_name)

\* agent = get_agent(agent_name); if agent is None: agent = get_agent(default)
ResolveAgent(agent_name) ==
    IF get_agent(agent_name) # None THEN get_agent(agent_name)
    ELSE get_agent(default_agent)

\* context.metadata["nlp_result"], ["intent"] (entities are not modelled)
Enrich(ctx, nlp_result, intent) ==
    IF nlp_result.given
    THEN [ctx EXCEPT !.metadata.nlp_result = nlp_result, !.metadata.intent = intent]
    ELSE ctx

\* the agent name process_stream looks up: the forced agent, else selection
StreamAgentName(ctx, nlp_result) ==
    IF ctx.metadata.forced_agent # ""
    THEN ctx.metadata.forced_agent
    ELSE select_agent(ClassifiedIntent(nlp_result))

StreamIntent(ctx, nlp_result) ==
    IF ctx.metadata.forced_agent # ""
    THEN ctx.metadata.forced_agent
    ELSE ClassifiedIntent(nlp_result)

ErrorEvent(message) == [type |-> "error", message |-> message]

ThinkingEvent(agent) ==
    [type |-> "agent_status", status |-> "thinking", agent |-> agent,
     message |-> "analyzing"]

\* what process_stream has yielded: its own events, then the agent's
OrchEvents == turn.prefix \o stm.events

\* Orchestrator.process up to and including the start of agent.run
OrchProcess ==
    /\ turn.pc = "routing"
    /\ turn.entry = "process"
    /\ LET intent     == ClassifiedIntent(turn.nlp)
           agent_name == select_agent(intent)
           agent      == ResolveAgent(agent_name)
       IN IF agent = None
          THEN /\ turn' = [turn EXCEPT !.pc = "failed", !.orch = "raised",
                                       !.error = "RuntimeError"]
               /\ UNCHANGED <<context, run, script>>
          ELSE /\ context' = Enrich(context, turn.nlp, intent)
               /\ run.pc = "idle"
               /\ run' = [IdleRun EXCEPT
                            !.pc = "call", !.agent = agent,
                            !.messages = _build_messages(turn.message, context'),
                            !.tools = AgentTools]
               /\ turn' = [turn EXCEPT !.pc = "executing", !.orch = "delegating"]
               /\ UNCHANGED script
    /\ UNCHANGED <<agent_registry, max_tool_rounds, tool_names, stm, client, stored, outside>>

\* Orchestrator.process_stream up to the start of agent.run_stream
OrchProcessStream ==
    /\ turn.pc = "routing"
    /\ turn.entry \in {"process_stream", "ws", "sse"}
    /\ LET intent     == StreamIntent(context, turn.nlp)
           agent_name == StreamAgentName(context, turn.nlp)
           agent      == ResolveAgent(agent_name)
       IN IF agent = None
          THEN /\ turn' = [turn EXCEPT !.pc = "executing", !.orch = "returned",
                                       !.prefix = <<ErrorEvent("No agents available")>>]
               /\ UNCHANGED <<context, stm, script>>
          ELSE /\ context' = Enrich(context, turn.nlp, intent)
               /\ stm.pc = "idle"
               /\ stm' = [IdleStream EXCEPT
                            !.pc = "call", !.agent = agent,
                            !.messages = _build_messages(turn.message, context'),
                            !.tools = AgentTools]
               /\ turn' = [turn EXCEPT !.pc = "executing", !.orch = "delegating",
                                       !.prefix = <<ThinkingEvent(agent)>>]
               /\ UNCHANGED script
    /\ UNCHANGED <<agent_registry, max_tool_rounds, tool_names, run, client, stored, outside>>

(***************************************************************************)
(* Memory manager (agents/memory.py): the messages of the conversations    *)
(***************************************************************************)
MAX_SHORT_TERM_MESSAGES == 20

StoredMessage(conversation_id, role, content) ==
    [conversation_id |-> conversation_id, role |-> role, content |-> content]

save_messageOverwriting(messages, conversation_id, role, content) ==
    IF messages = <<>>
    THEN <<StoredMessage(conversation_id, role, content)>>
    ELSE [messages EXCEPT ![Len(messages)] =
            StoredMessage(conversation_id, role, content)]

save_message(messages, conversation_id, role, content) ==
    Append(messages, StoredMessage(conversation_id, role, content))

MessagesOf(messages, conversation_id) ==
    SelectSeq(messages, LAMBDA m : m.conversation_id = conversation_id)

\* a ConversationSummary row; source holds the positions in the messages
\* table of the messages whose transcript the gateway was given
SummaryRow(conversation_id, text, source) ==
    [conversation_id |-> conversation_id, summary |-> text, source |-> source]

SummariesOf(rows, conversation_id) ==
    SelectSeq(rows, LAMBDA r : r.conversation_id = conversation_id)

\* the newest summary's text, None without a summary
_get_latest_summary(rows, conversation_id) ==
    LET own == SummariesOf(rows, conversation_id)
    IN IF own = <<>> THEN None ELSE own[Len(own)].summary

\* f"[Conversation summary up to this point: {summary}]"
SummaryNote(text) == <<"[Conversation summary up to this point: ", text, "]">>

get_conversation_contextOldest(messages, rows, conversation_id, max_messages) ==
    LET all     == MessagesOf(messages, conversation_id)
        last    == IF Len(all) > max_messages THEN max_messages ELSE Len(all)
        recent  == SubSeq(all, 1, last)
        entries == [i \in 1..Len(recent) |->
                      [role |-> recent[i].role, content |-> recent[i].content]]
        summary == _get_latest_summary(rows, conversation_id)
    IN IF summary # ""
       THEN <<[role |-> "system", content |-> SummaryNote(summary)]>> \o entries
       ELSE entries

\* the most recent max_messages messages, oldest first, as role/content,
\* behind the latest summary if that is a non-empty text
get_conversation_context(messages, rows, conversation_id, max_messages) ==
    LET all     == MessagesOf(messages, conversation_id)
        first   == IF Len(all) > max_messages THEN Len(all) - max_messages + 1 ELSE 1
        recent  == SubSeq(all, first, Len(all))
        entries == [i \in 1..Len(recent) |->
                      [role |-> recent[i].role, content |-> recent[i].content]]
        summary == _get_latest_summary(rows, conversation_id)
    IN IF summary # ""
       THEN <<[role |-> "system", content |-> SummaryNote(summary)]>> \o entries
       ELSE entries

should_summarizeAtBoundary(messages, conversation_id) ==
    Len(MessagesOf(messages, conversation_id)) >= MAX_SHORT_TERM_MESSAGES * 2

\* count > MAX_SHORT_TERM_MESSAGES * 2
should_summarize(messages, conversation_id) ==
    Len(MessagesOf(messages, conversation_id)) > MAX_SHORT_TERM_MESSAGES * 2

(***************************************************************************)
(* Entry points of a turn: direct calls of the Orchestrator, the WebSocket *)
(* endpoint (api/websocket/chat.py) and the SSE endpoint (api/v1/chat.py)  *)
(***************************************************************************)
ExistingConversation == "conv_1"
NewConversation == "conv_new"

PriorHistory ==
    <<StoredMessage(ExistingConversation, "user", "earlier"),
      StoredMessage(ExistingConversation, "assistant", "reply")>>

ConversationIds == {"", ExistingConversation}

ForcedInputs == {"", "compliance_sentinel", "report_analytics"}

AgentTypes == {"", "advisor_assistant", "compliance_sentinel", "report_analytics"}

Confidences == {20, 40, 90}

\* what NLPPipeline.process hands to the endpoints: a validated intent name
EndpointNlp ==
    { Nlp(n, c) : n \in {"portfolio_analysis", "tax_optimization", "client_lookup",
                         "report_generation"},
                  c \in Confidences }
    \cup { Nlp("general_chat", 0) }

\* what a direct caller of process / process_stream may pass
NlpInputs ==
    EndpointNlp
    \cup { Nlp("surprise_intent", c) : c \in Confidences }
    \cup { NoNlp,
           [NoNlp EXCEPT !.given = TRUE],
           [Nlp("tax_optimization", 0) EXCEPT !.has_confidence = FALSE],
           [Nlp("", 90) EXCEPT !.has_name = FALSE] }

\* the gateway behaviours explored below the entry points
TurnResponses ==
    { Response(FALSE, <<>>, <<(<<"a">>)>>),
      Response(FALSE, <<Inv("call_1", "ghost_tool", ArgsClient),
                        Inv("call_2", "get_client_profile", ArgsClient)>>, <<>>),
      Response(TRUE, <<>>, <<>>),
      Response(TRUE, <<>>, <<(<<"a">>)>>) }

TurnGateway == script' = script \/ script'[Len(script')] \in TurnResponses

\* app startup (main.py lifespan): initialize_agents registers the agents
InitializeAgents ==
    /\ turn.pc = "idle"
    /\ agent_registry = {}
    /\ agent_registry' = agent_registry \cup InitializedAgents
    /\ UNCHANGED <<max_tool_rounds, tool_names, context, script, run, stm,
                   turn, client, stored, outside>>

DirectCall(entry, forced_agent, nlp_result) ==
    /\ turn.pc = "idle"
    /\ turn' = [NoTurn EXCEPT !.pc = "routing", !.entry = entry,
                              !.message = "hello", !.nlp = nlp_result]
    /\ context' = [NoRequest EXCEPT !.metadata.forced_agent = forced_agent]
    /\ UNCHANGED <<agent_registry, max_tool_rounds, tool_names, script, run,
                   stm, client, stored, outside>>

CallProcess ==
    \E f \in ForcedInputs, n \in NlpInputs : DirectCall("process", f, n)

CallProcessStream ==
    \E f \in ForcedInputs, n \in NlpInputs : DirectCall("process_stream", f, n)

\* create the conversation if none is given, save the user message
EndpointReceive(entry, conversation_id, agent_type) ==
    /\ turn.pc = "idle"
    /\ LET cid == IF conversation_id = "" THEN NewConversation ELSE conversation_id IN
       /\ turn' = [NoTurn EXCEPT !.pc = "classifying", !.entry = entry,
                                 !.message = "hello", !.conversation_id = cid,
                                 !.agent_type = agent_type]
       /\ client' = IF conversation_id = ""
                    THEN <<[type |-> "conversation_created", conversation_id |-> cid]>>
                    ELSE <<>>
       /\ stored' = save_message(stored, cid, "user", "hello")
    /\ UNCHANGED <<agent_registry, max_tool_rounds, tool_names, context, script,
                   run, stm, outside>>

WsReceive == \E c \in ConversationIds : EndpointReceive("ws", c, "")

SseReceive ==
    \E c \in ConversationIds, a \in AgentTypes : EndpointReceive("sse", c, a)

\* frames that are no chat message: invalid JSON, ping, unknown type, empty
WsReject ==
    /\ turn.pc = "idle"
    /\ \E reply \in {"error", "pong"} :
         client' = <<[type |-> reply]>>
    /\ turn' = [NoTurn EXCEPT !.pc = "rejected", !.entry = "ws"]
    /\ UNCHANGED <<agent_registry, max_tool_rounds, tool_names, context, script,
                   run, stm, stored, outside>>

SseReject ==
    /\ turn.pc = "idle"
    /\ client' = <<ErrorEvent("Empty message")>>
    /\ turn' = [NoTurn EXCEPT !.pc = "rejected", !.entry = "sse"]
    /\ UNCHANGED <<agent_registry, max_tool_rounds, tool_names, context, script,
                   run, stm, stored, outside>>

\* NLP pipeline, conversation context, AgentContext, stream_start
WsClassify ==
    /\ turn.pc = "classifying"
    /\ turn.entry = "ws"
    /\ \E n \in EndpointNlp :
        /\ turn' = [turn EXCEPT !.pc = "routing", !.nlp = n]
        /\ client' = Append(client, [type |-> "stream_start", agent |-> n.name])
    /\ context' = [session_messages |->
                      get_conversation_context(stored, summaries, turn.conversation_id,
                                               MAX_SHORT_TERM_MESSAGES),
                   metadata |-> EmptyMetadata]
    /\ UNCHANGED <<agent_registry, max_tool_rounds, tool_names, script, run,
                   stm, stored, outside>>

\* the forced_agent override of an explicitly selected agent
SseForcedAgent(agent_type) ==
    IF agent_type # "" /\ agent_type \notin {"general", "advisor_assistant"}
    THEN agent_type ELSE ""

SseClassify ==
    /\ turn.pc = "classifying"
    /\ turn.entry = "sse"
    /\ \E n \in EndpointNlp :
        turn' = [turn EXCEPT !.pc = "routing", !.nlp = n]
    /\ context' = [session_messages |->
                      get_conversation_context(stored, summaries, turn.conversation_id,
                                               MAX_SHORT_TERM_MESSAGES),
                   metadata |-> [EmptyMetadata EXCEPT
                                   !.forced_agent = SseForcedAgent(turn.agent_type)]]
    /\ UNCHANGED <<agent_registry, max_tool_rounds, tool_names, script, run,
                   stm, client, stored, outside>>

\* the body of `async for event in orchestrator.process_stream(...)`:
\* the endpoint's locals after the event
ConsumeEvent(t, event) ==
    CASE event.type = "stream_token" ->
           [t EXCEPT !.consumed = @ + 1, !.full_content = @ \o event.token]
      [] event.type = "agent_status" ->
           [t EXCEPT !.consumed = @ + 1, !.agent_name = event.agent]
      [] event.type = "stream_end" ->
           [t EXCEPT !.consumed = @ + 1, !.full_content = event.content,
                     !.agent_name = event.agent, !.tool_calls = event.tool_calls]
      [] OTHER -> [t EXCEPT !.consumed = @ + 1]

\* what the endpoint forwards to its client for the event
ForwardEvent(sent, event) ==
    CASE event.type = "stream_token" ->
           Append(sent, [type |-> "stream_token", token |-> event.token])
      [] event.type = "agent_status" ->
           Append(sent, [type |-> "agent_status", status |-> event.status,
                         agent |-> event.agent, message |-> event.message])
      [] OTHER -> sent

TurnFrame == UNCHANGED <<agent_registry, max_tool_rounds, tool_names, context>>

Streaming(entry) ==
    /\ turn.pc = "executing"
    /\ turn.entry = entry

\* process_stream has an event the consumer has not taken yet
EventReady == turn.consumed < Len(OrchEvents)

\* process_stream has returned: after its error event, or with the agent
GeneratorReturned ==
    /\ ~EventReady
    /\ turn.orch = "returned" \/ stm.pc \in {"done", "exhausted"}

\* process_stream has raised the agent's gateway error
GeneratorRaised == ~EventReady /\ stm.pc = "raised"

WsConsume ==
    /\ Streaming("ws")
    /\ EventReady
    /\ turn' = ConsumeEvent(turn, OrchEvents[turn.consumed + 1])
    /\ client' = ForwardEvent(client, OrchEvents[turn.consumed + 1])
    /\ UNCHANGED <<script, run, stm, stored, outside>>
    /\ TurnFrame

SseConsume ==
    /\ Streaming("sse")
    /\ EventReady
    /\ turn' = ConsumeEvent(turn, OrchEvents[turn.consumed + 1])
    /\ client' = ForwardEvent(client, OrchEvents[turn.consumed + 1])
    /\ UNCHANGED <<script, run, stm, stored, outside>>
    /\ TurnFrame

\* the client has gone: send_json raises WebSocketDisconnect, which the
\* handler catches outside its receive loop
WsDisconnect ==
    /\ Streaming("ws")
    /\ EventReady
    /\ OrchEvents[turn.consumed + 1].type \in {"stream_token", "agent_status"}
    /\ turn' = [turn EXCEPT !.pc = "failed", !.error = "disconnected"]
    /\ UNCHANGED <<script, run, stm, client, stored, outside>>
    /\ TurnFrame

\* the client has gone: the response's generator is closed at its yield
SseDisconnect ==
    /\ Streaming("sse")
    /\ EventReady
    /\ OrchEvents[turn.consumed + 1].type \in {"stream_token", "agent_status"}
    /\ turn' = [turn EXCEPT !.pc = "failed", !.error = "disconnected"]
    /\ UNCHANGED <<script, run, stm, client, stored, outside>>
    /\ TurnFrame

CallerConsume ==
    /\ Streaming("process_stream")
    /\ EventReady
    /\ turn' = [turn EXCEPT !.consumed = @ + 1]
    /\ client' = Append(client, OrchEvents[turn.consumed + 1])
    /\ UNCHANGED <<script, run, stm, stored, outside>>
    /\ TurnFrame

AfterTurn(messages, conversation_id) ==
    IF should_summarize(messages, conversation_id) THEN "summarizing" ELSE "completed"

\* save the assistant message, send stream_end, check for summarization
WsFinish ==
    /\ Streaming("ws")
    /\ GeneratorReturned
    /\ stored' = save_message(stored, turn.conversation_id, "assistant", turn.full_content)
    /\ client' = Append(client, [type |-> "stream_end",
                                 full_content |-> turn.full_content,
                                 agent |-> turn.agent_name,
                                 tools_used |-> turn.tool_calls])
    /\ turn' = [turn EXCEPT !.pc = AfterTurn(stored', turn.conversation_id)]
    /\ UNCHANGED <<script, run, stm, outside>>
    /\ TurnFrame

\* except Exception: log and manager.disconnect(user_id)
WsFail ==
    /\ Streaming("ws")
    /\ GeneratorRaised
    /\ turn' = [turn EXCEPT !.pc = "failed", !.error = "logged"]
    /\ UNCHANGED <<script, run, stm, client, stored, outside>>
    /\ TurnFrame

\* the event loop is over: save_message is called with the keyword
\* extra_data, which it does not accept; the TypeError goes to the handler's
\* except Exception, which yields it as an error event. Nothing is stored,
\* no stream_end is sent and should_summarize is not reached.
SseFinish ==
    /\ Streaming("sse")
    /\ GeneratorReturned
    /\ client' = Append(client, ErrorEvent("save_message() got an unexpected keyword argument 'extra_data'"))
    /\ turn' = [turn EXCEPT !.pc = "failed", !.error = "reported"]
    /\ UNCHANGED <<script, run, stm, stored, outside>>
    /\ TurnFrame

\* except Exception: yield the error as an SSE event
SseFail ==
    /\ Streaming("sse")
    /\ GeneratorRaised
    /\ client' = Append(client, ErrorEvent("gateway error"))
    /\ turn' = [turn EXCEPT !.pc = "failed", !.error = "reported"]
    /\ UNCHANGED <<script, run, stm, stored, outside>>
    /\ TurnFrame

CallerFinish ==
    /\ Streaming("process_stream")
    /\ GeneratorReturned
    /\ turn' = [turn EXCEPT !.pc = "completed"]
    /\ UNCHANGED <<script, run, stm, client, stored, outside>>
    /\ TurnFrame

CallerFail ==
    /\ Streaming("process_stream")
    /\ GeneratorRaised
    /\ turn' = [turn EXCEPT !.pc = "failed", !.error = "raised"]
    /\ UNCHANGED <<script, run, stm, client, stored, outside>>
    /\ TurnFrame

\* process returns the OrchestratorResult, or the agent's error propagates
ProcessReturn ==
    /\ turn.pc = "executing"
    /\ turn.entry = "process"
    /\ run.pc = "returned"
    /\ turn' = [turn EXCEPT !.pc = "completed", !.orch = "returned",
                            !.full_content = run.result.content,
                            !.agent_name = run.result.agent_name,
                            !.tool_calls = run.result.tool_calls_made]
    /\ UNCHANGED <<script, run, stm, client, stored, outside>>
    /\ TurnFrame

ProcessRaise ==
    /\ turn.pc = "executing"
    /\ turn.entry = "process"
    /\ run.pc = "raised"
    /\ turn' = [turn EXCEPT !.pc = "failed", !.orch = "raised", !.error = "raised"]
    /\ UNCHANGED <<script, run, stm, client, stored, outside>>
    /\ TurnFrame

\* the agent's steps below the entry points; a generator runs only when its
\* consumer asks for the next event
RunStep(A) ==
    /\ turn.pc = "executing"
    /\ turn.entry = "process"
    /\ A
    /\ TurnGateway
    /\ UNCHANGED <<stm, turn, client, stored, outside>>
    /\ TurnFrame

StreamStep(A) ==
    /\ turn.pc = "executing"
    /\ turn.entry # "process"
    /\ ~EventReady
    /\ A
    /\ TurnGateway
    /\ UNCHANGED <<run, turn, client, stored, outside>>
    /\ TurnFrame

TRunRound       == RunStep(RunRound)
TRunDispatch    == RunStep(RunDispatch)
TRunForced      == RunStep(RunForced)
TStreamRound    == StreamStep(StreamRound)
TStreamAnnounce == StreamStep(StreamAnnounce)
TStreamExecute  == StreamStep(StreamExecute)
TStreamEmit     == StreamStep(StreamEmit)
TStreamChunk    == StreamStep(StreamChunk)

Init ==
    /\ agent_registry = {}
    /\ max_tool_rounds \in 1..MaxRounds
    /\ tool_names = <<"get_client_profile", "ghost_tool">>
    /\ context = NoRequest
    /\ script = <<>>
    /\ run = IdleRun
    /\ stm = IdleStream
    /\ turn = NoTurn
    /\ client = <<>>
    /\ stored = PriorHistory
    /\ OutsideIdle

Next ==
    \/ InitializeAgents
    \/ CallProcess \/ CallProcessStream
    \/ WsReceive \/ WsReject \/ WsClassify
    \/ SseReceive \/ SseReject \/ SseClassify
    \/ OrchProcess \/ OrchProcessStream
    \/ TRunRound \/ TRunDispatch \/ TRunForced
    \/ TStreamRound \/ TStreamAnnounce \/ TStreamExecute
    \/ TStreamEmit \/ TStreamChunk
    \/ WsConsume \/ SseConsume \/ CallerConsume
    \/ WsDisconnect \/ SseDisconnect
    \/ WsFinish \/ WsFail \/ SseFinish \/ SseFail
    \/ CallerFinish \/ CallerFail
    \/ ProcessReturn \/ ProcessRaise

Spec == Init /\ [][Next]_vars

(***************************************************************************)
(* Properties of routing and of the endpoints                              *)
(***************************************************************************)
\* the orchestrator has resolved the agent of the turn (or failed to)
Routed == turn.pc \in {"executing", "completed", "failed", "summarizing"}

\* the agent whose run / run_stream the orchestrator started, if any
Executed == IF turn.entry = "process" THEN run.agent ELSE stm.agent

Forced == context.metadata.forced_agent

\* C5: under process and under process_stream, a forced-agent override that
\* names a registered agent makes that agent execute the turn.
C5_ForcedAgentExecutes ==
    (Routed /\ Forced # "" /\ Forced \in agent_registry) => Executed = Forced

Classified(nlp_result) ==
    /\ nlp_result.given
    /\ nlp_result.has_intent
    /\ nlp_result.has_name
    /\ nlp_result.has_confidence

InTable(nlp_result) == nlp_result.name \in DOMAIN INTENT_AGENT_MAP

\* C6 as claimed: without a forced agent the default agent executes below
\* 0.4, the table's agent and never the default executes from 0.4 on, and an
\* intent outside the table or a missing classification gives the default.
C6_RoutingByConfidence ==
    (Routed /\ Forced = "" /\ Executed # "") =>
        LET n == turn.nlp IN
        /\ (Classified(n) /\ n.confidence < ConfidenceThreshold) =>
              Executed = default_agent
        /\ (Classified(n) /\ n.confidence >= ConfidenceThreshold /\ InTable(n)) =>
              Executed = INTENT_AGENT_MAP[n.name] /\ Executed # default_agent
        /\ (Classified(n) /\ n.confidence >= ConfidenceThreshold /\ ~InTable(n)) =>
              Executed = default_agent
        /\ (~n.given \/ ~n.has_intent) => Executed = default_agent

\* C6 amended: from 0.4 on the table's agent executes if it is registered
\* (it is the default agent itself for client_lookup, general_chat and
\* order_management) and the default agent executes if it is not.
C6_RoutingByConfidenceAmended ==
    (Routed /\ Forced = "" /\ Executed # "") =>
        LET n == turn.nlp IN
        /\ (Classified(n) /\ n.confidence < ConfidenceThreshold) =>
              Executed = default_agent
        /\ (Classified(n) /\ n.confidence >= ConfidenceThreshold /\ InTable(n)) =>
              Executed = IF INTENT_AGENT_MAP[n.name] \in agent_registry
                         THEN INTENT_AGENT_MAP[n.name] ELSE default_agent
        /\ (Classified(n) /\ n.confidence >= ConfidenceThreshold /\ ~InTable(n)) =>
              Executed = default_agent
        /\ (~n.given \/ ~n.has_intent) => Executed = default_agent

C6_Witness ==
    /\ turn.pc = "completed"
    /\ Forced = ""
    /\ turn.nlp = Nlp("portfolio_analysis", ConfidenceThreshold)
    /\ Executed = "portfolio_intelligence"

C6_WitnessLowConfidence ==
    /\ turn.pc = "completed"
    /\ Forced = ""
    /\ turn.nlp = Nlp("tax_optimization", 20)
    /\ Executed = default_agent

\* the agent name the orchestrator looks up first
ResolvedName ==
    IF turn.entry = "process" THEN select_agent(ClassifiedIntent(turn.nlp))
    ELSE StreamAgentName(context, turn.nlp)

\* C7: an unregistered resolved agent is replaced by the default agent; with
\* the default unregistered as well the turn aborts before any agent runs and
\* before any gateway call: process raises, process_stream yields one error
\* event and returns.
C7_FallbackOrAbort ==
    (Routed /\ ResolvedName \notin agent_registry) =>
        IF default_agent \in agent_registry
        THEN Executed = default_agent
        ELSE /\ run = IdleRun
             /\ stm = IdleStream
             /\ script = <<>>
             /\ IF turn.entry = "process"
                THEN turn.pc = "failed" /\ turn.error = "RuntimeError"
                ELSE /\ OrchEvents = <<ErrorEvent("No agents available")>>
                     /\ turn.orch = "returned"

C7_Witness ==
    /\ turn.pc = "completed"
    /\ ResolvedName = "report_analytics"
    /\ ResolvedName \notin agent_registry
    /\ Executed = default_agent

C7_WitnessAbort ==
    /\ turn.entry = "process_stream"
    /\ turn.pc = "completed"
    /\ default_agent \notin agent_registry
    /\ client = <<ErrorEvent("No agents available")>>

ClientErrors == SelectSeq(client, LAMBDA e : e.type = "error")

EmptyStreamEnds ==
    SelectSeq(client, LAMBDA e :
        /\ e.type = "stream_end"
        /\ IF "full_content" \in DOMAIN e THEN e.full_content = <<>>
           ELSE e.content = <<>>)

\* no agent could be resolved, or the agent's gateway call failed
FatalError ==
    \/ turn.orch = "returned" /\ turn.prefix # <<>> /\ turn.prefix[1].type = "error"
    \/ stm.pc = "raised"

\* C9: a WebSocket or SSE turn that hit a fatal error has sent its client an
\* error event and no stream_end event with empty content.
C9_FatalErrorSignalled ==
    (/\ turn.entry \in {"ws", "sse"}
     /\ turn.pc \in {"completed", "failed"}
     /\ FatalError)
    => ClientErrors # <<>> /\ EmptyStreamEnds = <<>>

\* the assistant messages stored for the conversation of the turn
PersistedReplies(messages) ==
    SelectSeq(messages, LAMBDA m :
        m.conversation_id = turn.conversation_id /\ m.role = "assistant")

ReplyPersisted == Len(PersistedReplies(stored)) > Len(PersistedReplies(PriorHistory))

StreamEndReceived ==
    \E i \in 1..turn.consumed : OrchEvents[i].type = "stream_end"

\* C11: a WebSocket or SSE turn has stored an assistant message only if it
\* received the agent's stream_end event; a turn whose event stream ended
\* without one (abandoned, failed, or ended by an error event) stores none.
C11_PersistOnlyAfterStreamEnd ==
    (turn.entry \in {"ws", "sse"} /\ ReplyPersisted) => StreamEndReceived

\* the invocations the activation handed to a registered callable that is
\* not in the agent's tool_names
ForeignExecutions(activation) ==
    SelectSeq(activation.dispatched, LAMBDA r :
        /\ r.invoked
        /\ r.name \in tool_registry
        /\ \A i \in 1..Len(tool_names) : tool_names[i] # r.name)

\* C12: whatever the gateway proposes, run and run_stream never execute a
\* registered tool that is outside the agent's configured tool_names.
C12_OnlyConfiguredToolsRun ==
    ForeignExecutions(run) = <<>> /\ ForeignExecutions(stm) = <<>>

(***************************************************************************)
(* MemoryManager on its own: one long conversation, written the way the    *)
(* chat endpoints write it (user message, assistant message, then the      *)
(* summarization check), beside a conversation of at most one message     *)
(***************************************************************************)
MaxStored == 44
MaxSummaries == 2

MainConversation == "conv_1"
SideConversation == "conv_2"
Conversations == {MainConversation, SideConversation}

\* the agent runtime and the endpoints at rest
RuntimeIdle ==
    /\ agent_registry = {}
    /\ max_tool_rounds = MaxRounds
    /\ tool_names = <<>>
    /\ context = NoRequest
    /\ script = <<>>
    /\ run = IdleRun
    /\ stm = IdleStream
    /\ turn = NoTurn
    /\ client = <<>>

runtime == <<agent_registry, max_tool_rounds, tool_names, context, script,
             run, stm, turn, client>>

\* positions in the messages table of the conversation's messages, oldest first
PositionsOf(messages, conversation_id) ==
    SelectSeq([i \in 1..Len(messages) |-> i],
              LAMBDA i : messages[i].conversation_id = conversation_id)

\* what the gateway answers to the summarization prompt: an error, a
\* completion without content, or a (possibly empty) text
Completion(fail, has_content, text) ==
    [fail |-> fail, has_content |-> has_content, text |-> text]

SummaryCompletions ==
    { Completion(TRUE, FALSE, ""), Completion(FALSE, FALSE, ""),
      Completion(FALSE, TRUE, ""), Completion(FALSE, TRUE, "key facts") }

\* order_by(created_at).limit(MAX_SHORT_TERM_MESSAGES * 2): the oldest
\* messages of the conversation, whether or not a summary covers them
SummarizeFetch(messages, conversation_id) ==
    LET own == PositionsOf(messages, conversation_id)
    IN IF Len(own) > MAX_SHORT_TERM_MESSAGES * 2
       THEN SubSeq(own, 1, MAX_SHORT_TERM_MESSAGES * 2) ELSE own

\* summarize_conversation: the value returned (or the exception raised) and
\* the summaries table afterwards; a completion without content cannot be
\* stored in the non-nullable summary column
summarize_conversation(messages, rows, conversation_id, completion) ==
    LET fetched == SummarizeFetch(messages, conversation_id) IN
    IF fetched = <<>>
    THEN [raised |-> FALSE, value |-> "", fetched |-> fetched, rows |-> rows]
    ELSE IF completion.fail
    THEN [raised |-> TRUE, value |-> "gateway error", fetched |-> fetched, rows |-> rows]
    ELSE IF ~completion.has_content
    THEN [raised |-> TRUE, value |-> "IntegrityError", fetched |-> fetched, rows |-> rows]
    ELSE [raised |-> FALSE, value |-> completion.text, fetched |-> fetched,
          rows |-> Append(rows, SummaryRow(conversation_id, completion.text, fetched))]

ContextLimits == {0, 1, 2, MAX_SHORT_TERM_MESSAGES}

InitMemory ==
    /\ RuntimeIdle
    /\ stored \in {<<>>, <<StoredMessage(SideConversation, "user", "0")>>}
    /\ summaries = <<>>
    /\ mem = NoMemCall
    /\ pipeline = NoPipeline
    /\ dispatch = NoDispatch
    /\ clients = NoClients
    /\ http = NoReply
    /\ sessions = NoSessions
    /\ conversations = NoConversations
    /\ attempt = NoAttempt

MemFrame == UNCHANGED <<runtime, pipeline, dispatch, clients, http,
                        sessions, conversations, attempt>>

\* the endpoints save the user's message, then the assistant's
NextRole(messages, conversation_id) ==
    IF Len(MessagesOf(messages, conversation_id)) % 2 = 0 THEN "user" ELSE "assistant"

MemSave(conversation_id) ==
    /\ Len(MessagesOf(stored, conversation_id)) < MaxStored
    /\ stored' = save_message(stored, conversation_id,
                              NextRole(stored, conversation_id),
                              ToString(Len(stored) + 1))
    /\ mem' = [op |-> "save_message", conversation_id |-> conversation_id,
               role |-> NextRole(stored, conversation_id)]
    /\ UNCHANGED summaries
    /\ MemFrame

MemGetContext(conversation_id, max_messages) ==
    /\ mem' = [op |-> "get_conversation_context",
               conversation_id |-> conversation_id,
               max_messages |-> max_messages,
               result |-> get_conversation_context(stored, summaries,
                                                   conversation_id, max_messages)]
    /\ UNCHANGED <<stored, summaries>>
    /\ MemFrame

MemShouldSummarize(conversation_id) ==
    /\ mem' = [op |-> "should_summarize", conversation_id |-> conversation_id,
               result |-> should_summarize(stored, conversation_id)]
    /\ UNCHANGED <<stored, summaries>>
    /\ MemFrame

\* a call of summarize_conversation on the short conversation
MemSummarize(conversation_id, completion) ==
    /\ conversation_id = SideConversation
    /\ Len(SummariesOf(summaries, conversation_id)) < MaxSummaries
    /\ LET out == summarize_conversation(stored, summaries, conversation_id, completion) IN
       /\ summaries' = out.rows
       /\ mem' = [op |-> "summarize_conversation",
                  conversation_id |-> conversation_id,
                  raised |-> out.raised, result |-> out.value,
                  fetched |-> out.fetched]
    /\ UNCHANGED stored
    /\ MemFrame

\* the end of an endpoint's turn, right after the assistant's message is
\* saved: if should_summarize(...): summarize_conversation(...)
MemAfterTurn(conversation_id, completion) ==
    /\ mem.op = "save_message"
    /\ mem.role = "assistant"
    /\ mem.conversation_id = conversation_id
    /\ LET out == summarize_conversation(stored, summaries, conversation_id, completion) IN
       IF should_summarize(stored, conversation_id)
       THEN /\ summaries' = out.rows
            /\ mem' = [op |-> "after_turn", conversation_id |-> conversation_id,
                       triggered |-> TRUE, raised |-> out.raised,
                       result |-> out.value, fetched |-> out.fetched]
       ELSE /\ completion = Completion(FALSE, TRUE, "")
            /\ summaries' = summaries
            /\ mem' = [op |-> "after_turn", conversation_id |-> conversation_id,
                       triggered |-> FALSE, raised |-> FALSE,
                       result |-> "", fetched |-> <<>>]
    /\ UNCHANGED stored
    /\ MemFrame

NextMemory ==
    \/ MemSave(MainConversation)
    \/ \E c \in Conversations, n \in ContextLimits : MemGetContext(c, n)
    \/ \E c \in Conversations : MemShouldSummarize(c)
    \/ \E c \in Conversations, g \in SummaryCompletions : MemSummarize(c, g)
    \/ \E c \in Conversations, g \in SummaryCompletions : MemAfterTurn(c, g)

SpecMemory == InitMemory /\ [][NextMemory]_vars

(***************************************************************************)
(* Properties of MemoryManager                                             *)
(***************************************************************************)
\* result is: the summary entry (if expected) and then the conversation's
\* most recent messages, at most max_messages of them, oldest first
ContextShape(result, all, max_messages, expect_note, text) ==
    LET fetched == IF expect_note /\ result # <<>> THEN Tail(result) ELSE result
        k       == IF Len(all) > max_messages THEN max_messages ELSE Len(all)
    IN /\ expect_note =>
            /\ result # <<>>
            /\ result[1].role = "system"
            /\ result[1].content = SummaryNote(text)
       /\ Len(fetched) = k
       /\ \A i \in 1..Len(fetched) :
            /\ fetched[i].role # "system"
            /\ i <= k
            /\ fetched[i] = [role    |-> all[Len(all) - k + i].role,
                             content |-> all[Len(all) - k + i].content]

ContextCalled == mem.op = "get_conversation_context"

C13_WitnessEmptySummary ==
    /\ ContextCalled
    /\ SummariesOf(summaries, mem.conversation_id) # <<>>
    /\ _get_latest_summary(summaries, mem.conversation_id) = ""
    /\ mem.result # <<>>
    /\ mem.result[1].role = "user"

\* C14: should_summarize answers true exactly when the conversation holds
\* more than 2 x MAX_SHORT_TERM_MESSAGES = 40 messages; at 40 it answers false.
C14_ShouldSummarizeAboveTwiceWindow ==
    /\ 2 * MAX_SHORT_TERM_MESSAGES = 40
    /\ mem.op = "should_summarize" =>
         LET count == Len(MessagesOf(stored, mem.conversation_id)) IN
         /\ mem.result <=> count > 2 * MAX_SHORT_TERM_MESSAGES
         /\ count = 40 => ~mem.result

C14_Witness ==
    /\ mem.op = "should_summarize"
    /\ Len(MessagesOf(stored, mem.conversation_id)) = 2 * MAX_SHORT_TERM_MESSAGES
    /\ ~mem.result

C14_WitnessAbove ==
    /\ mem.op = "should_summarize"
    /\ Len(MessagesOf(stored, mem.conversation_id)) = 2 * MAX_SHORT_TERM_MESSAGES + 1
    /\ mem.result

\* message_count minus the messages covered by the latest summary
UnsummarizedCount(messages, rows, conversation_id) ==
    LET own == SummariesOf(rows, conversation_id)
    IN Len(MessagesOf(messages, conversation_id))
       - (IF own = <<>> THEN 0 ELSE Len(own[Len(own)].source))

\* C15: at the end of a turn summarization is triggered exactly when the
\* conversation's unsummarized_count (message count minus the messages the
\* latest summary covers) exceeds 2 x MAX_SHORT_TERM_MESSAGES.
C15_TriggeredByUnsummarizedCount ==
    [][(mem.op = "save_message" /\ mem'.op = "after_turn") =>
          (mem'.triggered <=>
             UnsummarizedCount(stored, summaries, mem'.conversation_id)
               > 2 * MAX_SHORT_TERM_MESSAGES)]_vars

\* C20: no message is summarized twice: the summaries of a conversation are
\* made from disjoint sets of messages (each from the oldest messages that no
\* earlier summary covers).
C20_NeverSummarizedAgain ==
    \A i, j \in 1..Len(summaries) :
        (i < j /\ summaries[i].conversation_id = summaries[j].conversation_id) =>
            \A a \in 1..Len(summaries[i].source), b \in 1..Len(summaries[j].source) :
                summaries[i].source[a] # summaries[j].source[b]

(***************************************************************************)
(* NLPPipeline.process (nlp/__init__.py) and its four sub-tasks, each one  *)
(* gateway call whose reply is parsed as JSON                              *)
(***************************************************************************)
INTENTS ==
    {"portfolio_analysis", "client_lookup", "risk_assessment", "rebalance_request",
     "order_management", "compliance_check", "tax_optimization", "funding_analysis",
     "meeting_prep", "lead_management", "campaign_creation", "general_chat",
     "report_generation", "churn_prediction"}

ENTITY_TYPES ==
    {"CLIENT_NAME", "TICKER_SYMBOL", "AMOUNT", "DATE", "PERCENTAGE", "ACCOUNT_ID",
     "RISK_LEVEL", "ASSET_CLASS", "ORDER_TYPE"}

\* the gateway's reply to a sub-task's prompt: the call raised, or its text
\* is not JSON, or it is the JSON value json
Reply(fail, parsable, json) == [fail |-> fail, parsable |-> parsable, json |-> json]

GatewayFailure == Reply(TRUE, FALSE, <<>>)
UnparsableText == Reply(FALSE, FALSE, <<>>)

\* the sub-task went through its except branch
Failed(reply) == reply.fail \/ ~reply.parsable

IntentReplies ==
    { GatewayFailure, UnparsableText,
      Reply(FALSE, TRUE, [intent |-> "portfolio_analysis", has_confidence |-> TRUE,
                          confidence |-> 90]),
      Reply(FALSE, TRUE, [intent |-> "surprise_intent", has_confidence |-> FALSE,
                          confidence |-> 0]) }

EntityReplies ==
    { GatewayFailure, UnparsableText,
      Reply(FALSE, TRUE, [entities |-> <<[type |-> "CLIENT_NAME", value |-> "Rajesh"],
                                         [type |-> "PLANET", value |-> "Mars"]>>]) }

SentimentReplies ==
    { GatewayFailure, UnparsableText,
      Reply(FALSE, TRUE, [score |-> 150, classification |-> "furious",
                          urgency |-> "high"]),
      Reply(FALSE, TRUE, [score |-> -40, classification |-> "negative",
                          urgency |-> "medium"]) }

QueryReplies ==
    { GatewayFailure, UnparsableText,
      Reply(FALSE, TRUE, [table |-> "client"]),
      Reply(FALSE, TRUE, [table |-> None]) }

classify_intentUnvalidated(reply) ==
    IF Failed(reply)
    THEN [name |-> "general_chat", confidence |-> 0]
    ELSE [name |-> reply.json.intent,
          confidence |-> IF reply.json.has_confidence THEN reply.json.confidence
                         ELSE 50]

\* IntentResult: name, confidence in hundredths
classify_intent(reply) ==
    IF Failed(reply)
    THEN [name |-> "general_chat", confidence |-> 0]
    ELSE [name |-> IF reply.json.intent \in INTENTS THEN reply.json.intent
                   ELSE "general_chat",
          confidence |-> IF reply.json.has_confidence THEN reply.json.confidence
                         ELSE 50]

\* EntityResult: the entities of a known type
extract_entities(reply) ==
    IF Failed(reply)
    THEN [entities |-> <<>>]
    ELSE [entities |-> SelectSeq(reply.json.entities,
                                 LAMBDA e : e.type \in ENTITY_TYPES)]

\* SentimentResult: score in hundredths, clamped to -1.0 .. 1.0
analyze_sentiment(reply) ==
    IF Failed(reply)
    THEN [score |-> 0, classification |-> "neutral", urgency |-> "low"]
    ELSE [score |-> IF reply.json.score > 100 THEN 100
                    ELSE IF reply.json.score < -100 THEN -100 ELSE reply.json.score,
          classification |->
              IF reply.json.classification \in {"positive", "neutral", "negative"}
              THEN reply.json.classification ELSE "neutral",
          urgency |-> reply.json.urgency]

\* QueryResult; present is false for the None of a pipeline without query parse
QueryResult(table) == [present |-> TRUE, table |-> table]
NoQuery == [present |-> FALSE, table |-> None]

parse_query(reply) ==
    IF Failed(reply) THEN QueryResult(None) ELSE QueryResult(reply.json.table)

is_valid_query(query) == query.present /\ query.table # None

RepliesTo(task) ==
    CASE task = "intent"    -> IntentReplies
      [] task = "entities"  -> EntityReplies
      [] task = "sentiment" -> SentimentReplies
      [] OTHER              -> QueryReplies

SubTask(task, reply) ==
    CASE task = "intent"    -> classify_intent(reply)
      [] task = "entities"  -> extract_entities(reply)
      [] task = "sentiment" -> analyze_sentiment(reply)
      [] OTHER              -> parse_query(reply)

\* tasks = [classify_intent, extract_entities, analyze_sentiment] (+ parse_query)
PipelineTasks(include_query_parse) ==
    IF include_query_parse THEN <<"intent", "entities", "sentiment", "query">>
    ELSE <<"intent", "entities", "sentiment">>

gatherAsCompleted(tasks, finished, outputs) ==
    [i \in 1..Len(finished) |-> outputs[finished[i]]]

\* asyncio.gather: the results in the order of the tasks passed, whatever
\* the order in which they finished
gather(tasks, finished, outputs) ==
    [i \in 1..Len(tasks) |-> outputs[tasks[i]]]

\* NLPResult from the gathered results
NLPResult(results, include_query_parse) ==
    [intent    |-> results[1],
     entities  |-> results[2],
     sentiment |-> results[3],
     query     |-> IF include_query_parse /\ Len(results) > 3 THEN results[4]
                   ELSE NoQuery]

InitPipeline ==
    /\ RuntimeIdle
    /\ stored = <<>>
    /\ summaries = <<>>
    /\ mem = NoMemCall
    /\ pipeline = NoPipeline
    /\ dispatch = NoDispatch
    /\ clients = NoClients
    /\ http = NoReply
    /\ sessions = NoSessions
    /\ conversations = NoConversations
    /\ attempt = NoAttempt

PipelineFrame == UNCHANGED <<runtime, stored, summaries, mem, dispatch, clients, http,
                             sessions, conversations, attempt>>

\* process(message, include_query_parse): the sub-tasks are handed to gather
PipelineProcess(include_query_parse) ==
    /\ pipeline.pc = "idle"
    /\ pipeline' = [pc |-> "gathering",
                    include_query_parse |-> include_query_parse,
                    tasks |-> PipelineTasks(include_query_parse),
                    replies |-> <<>>, outputs |-> <<>>, finished |-> <<>>]
    /\ PipelineFrame

\* one sub-task gets its gateway reply and finishes
SubTaskFinish(task, reply) ==
    /\ pipeline.pc = "gathering"
    /\ \E i \in 1..Len(pipeline.tasks) : pipeline.tasks[i] = task
    /\ task \notin DOMAIN pipeline.outputs
    /\ pipeline' = [pipeline EXCEPT
                      !.replies = [t \in DOMAIN @ \cup {task} |->
                                      IF t = task THEN reply ELSE @[t]],
                      !.outputs = [t \in DOMAIN @ \cup {task} |->
                                      IF t = task THEN SubTask(task, reply) ELSE @[t]],
                      !.finished = Append(@, task)]
    /\ PipelineFrame

\* gather returns when every sub-task has finished; process builds NLPResult
PipelineReturn ==
    /\ pipeline.pc = "gathering"
    /\ Len(pipeline.finished) = Len(pipeline.tasks)
    /\ pipeline' = [pc |-> "returned",
                    include_query_parse |-> pipeline.include_query_parse,
                    tasks |-> pipeline.tasks,
                    replies |-> pipeline.replies,
                    outputs |-> pipeline.outputs,
                    finished |-> pipeline.finished,
                    result |-> NLPResult(gather(pipeline.tasks, pipeline.finished,
                                                pipeline.outputs),
                                         pipeline.include_query_parse)]
    /\ PipelineFrame

NextPipeline ==
    \/ \E q \in BOOLEAN : PipelineProcess(q)
    \/ \E t \in {"intent", "entities", "sentiment", "query"} :
          \E r \in RepliesTo(t) : SubTaskFinish(t, r)
    \/ PipelineReturn

SpecPipeline == InitPipeline /\ [][NextPipeline]_vars

SpecPipelineFair == SpecPipeline /\ WF_vars(NextPipeline)

(***************************************************************************)
(* Properties of NLPPipeline.process                                       *)
(***************************************************************************)
PipelineReturned == pipeline.pc = "returned"

AllSubTasksFinished ==
    /\ Len(pipeline.finished) = Len(pipeline.tasks)
    /\ \A i \in 1..Len(pipeline.tasks) :
         /\ pipeline.tasks[i] \in DOMAIN pipeline.replies
         /\ \E j \in 1..Len(pipeline.finished) : pipeline.finished[j] = pipeline.tasks[i]

\* the result holds the neutral default for each failed sub-task and the
\* sub-task's own result for each other one
DefaultsForFailures ==
    LET r == pipeline.result
        g == pipeline.replies
    IN /\ r.intent = IF Failed(g["intent"])
                     THEN [name |-> "general_chat", confidence |-> 0]
                     ELSE classify_intent(g["intent"])
       /\ r.entities = IF Failed(g["entities"])
                       THEN [entities |-> <<>>]
                       ELSE extract_entities(g["entities"])
       /\ r.sentiment = IF Failed(g["sentiment"])
                        THEN [score |-> 0, classification |-> "neutral", urgency |-> "low"]
                        ELSE analyze_sentiment(g["sentiment"])
       /\ IF pipeline.include_query_parse
          THEN IF Failed(g["query"])
               THEN ~is_valid_query(r.query)
               ELSE r.query = parse_query(g["query"])
          ELSE r.query = NoQuery

C16_Inv ==
    /\ pipeline.pc \in {"idle", "gathering", "returned"}
    /\ PipelineReturned => AllSubTasksFinished /\ DefaultsForFailures

\* C16: whichever sub-tasks fail (gateway error or unparsable text) and in
\* whatever order the sub-tasks finish, process returns, never raises, only
\* after all of them have finished, with the neutral default for exactly the
\* failed ones and the others' results unaltered.
C16_PipelineJoinsAndDefaults == []C16_Inv /\ <>PipelineReturned

C16_Witness ==
    /\ PipelineReturned
    /\ pipeline.finished = <<"query", "sentiment", "entities", "intent">>
    /\ pipeline.replies["entities"] = GatewayFailure
    /\ pipeline.replies["query"] = UnparsableText
    /\ pipeline.result.entities = [entities |-> <<>>]
    /\ pipeline.result.intent = [name |-> "portfolio_analysis", confidence |-> 90]
    /\ pipeline.result.sentiment.score = 100

(***************************************************************************)
(* The tool registry called directly (agents/tools/__init__.py)            *)
(***************************************************************************)
MaxNames == 3

ToolNames == {"get_client_profile", "check_kyc_status", "ghost_tool"}

ArgumentStrings ==
    {ArgsClient, ArgsAdvisor, ArgsBoom, ArgsEmpty, ArgsArray, ArgsBroken, ArgsWithDb}

ExtraBindings ==
    { <<>>, Db, [db |-> "session", client_id |-> "c9"],
      [db |-> "session", advisor_id |-> "a1"] }

RECURSIVE NameLists(_)
NameLists(n) ==
    IF n = 0 THEN {<<>>}
    ELSE NameLists(n - 1)
         \cup { Append(l, x) : l \in { m \in NameLists(n - 1) : Len(m) = n - 1 },
                              x \in ToolNames }

InitTools ==
    /\ RuntimeIdle
    /\ stored = <<>>
    /\ summaries = <<>>
    /\ mem = NoMemCall
    /\ pipeline = NoPipeline
    /\ dispatch = NoDispatch
    /\ clients = NoClients
    /\ http = NoReply
    /\ sessions = NoSessions
    /\ conversations = NoConversations
    /\ attempt = NoAttempt

ToolsFrame == UNCHANGED <<runtime, stored, summaries, mem, pipeline, clients, http,
                          sessions, conversations, attempt>>

ToolExecute(name, arguments, kwargs) ==
    /\ dispatch' = [op |-> "execute_tool", name |-> name, arguments |-> arguments,
                    kwargs |-> kwargs,
                    outcome |-> execute_tool(name, arguments, kwargs)]
    /\ ToolsFrame

ToolDefinitions(names) ==
    /\ dispatch' = [op |-> "get_tool_definitions", names |-> names,
                    result |-> get_tool_definitions(names)]
    /\ ToolsFrame

NextTools ==
    \/ \E n \in ToolNames, a \in ArgumentStrings, k \in ExtraBindings :
          ToolExecute(n, a, k)
    \/ \E l \in NameLists(MaxNames) : ToolDefinitions(l)

SpecTools == InitTools /\ [][NextTools]_vars

(***************************************************************************)
(* Properties of the tool registry                                         *)
(***************************************************************************)
\* C17: execute_tool calls the registered callable with exactly the parsed
\* key/value map plus the extra bindings, an extra binding winning over a
\* parsed key of the same name (a db inside the JSON never replaces the
\* injected handle); it reaches the call exactly for a registered name whose
\* arguments parse to a map.
C17_ExtraBindingsWin ==
    dispatch.op = "execute_tool" =>
        LET parsed == json_loads(dispatch.arguments)
            out    == dispatch.outcome
        IN /\ out.called <=> (/\ dispatch.name \in tool_registry
                               /\ parsed.ok /\ parsed.is_dict)
           /\ out.called =>
                /\ DOMAIN out.all_args = DOMAIN parsed.map \cup DOMAIN dispatch.kwargs
                /\ \A k \in DOMAIN dispatch.kwargs :
                     out.all_args[k] = dispatch.kwargs[k]
                /\ \A k \in DOMAIN parsed.map \ DOMAIN dispatch.kwargs :
                     out.all_args[k] = parsed.map[k]

C17_Witness ==
    /\ dispatch.op = "execute_tool"
    /\ dispatch.name = "get_client_profile"
    /\ dispatch.arguments = ArgsWithDb
    /\ dispatch.kwargs = Db
    /\ dispatch.outcome.called
    /\ dispatch.outcome.invoked
    /\ dispatch.outcome.all_args = [client_id |-> "c1", db |-> "session"]

\* positions of names that hold a registered tool, in increasing order
RegisteredPositions(names) ==
    SelectSeq([i \in 1..Len(names) |-> i], LAMBDA i : names[i] \in tool_registry)

\* C18: get_tool_definitions returns one definition for each entry of names
\* that is a registered tool, in the order of names, leaves out every unknown
\* name and returns no tool that is not in names.
C18_DefinitionsFollowNames ==
    dispatch.op = "get_tool_definitions" =>
        LET at == RegisteredPositions(dispatch.names) IN
        /\ Len(dispatch.result) = Len(at)
        /\ \A j \in 1..Len(dispatch.result) :
             /\ j <= Len(at)
             /\ dispatch.result[j] = dispatch.names[at[j]]
             /\ dispatch.result[j] \in tool_registry

C18_Witness ==
    /\ dispatch.op = "get_tool_definitions"
    /\ dispatch.names = <<"get_client_profile", "ghost_tool", "check_kyc_status">>
    /\ dispatch.result = <<"get_client_profile", "check_kyc_status">>

(***************************************************************************)
(* Clients API (api/v1/clients.py) over ClientService and ClientRepository *)
(* with two advisors                                                       *)
(***************************************************************************)
MaxClients == 3

Advisors == {"advisor_a", "advisor_b"}
RiskProfiles == {"moderate", "aggressive"}
DefaultLimit == 20

ClientRow(id, advisor_id, risk_profile) ==
    [id |-> id, advisor_id |-> advisor_id, risk_profile |-> risk_profile]

RECURSIVE Reverse(_)
Reverse(seq) ==
    IF seq = <<>> THEN <<>> ELSE Append(Reverse(Tail(seq)), Head(seq))

get_by_idUnscoped(rows, advisor_id, record_id) ==
    SelectSeq(rows, LAMBDA r : r.id = record_id)

\* BaseRepository.get_by_id: where id == record_id and advisor_id ==
\* self.advisor_id; the empty sequence stands for None
get_by_id(rows, advisor_id, record_id) ==
    SelectSeq(rows, LAMBDA r : r.id = record_id /\ r.advisor_id = advisor_id)

\* BaseRepository.create with advisor_id = self.advisor_id
create(table, advisor_id, risk_profile) ==
    [rows |-> Append(table.rows,
                     ClientRow(table.created + 1, advisor_id, risk_profile)),
     created |-> table.created + 1]

\* BaseRepository.update: setattr on the instance get_by_id found
update(rows, advisor_id, record_id, risk_profile) ==
    IF get_by_id(rows, advisor_id, record_id) = <<>> THEN rows
    ELSE [i \in 1..Len(rows) |->
            IF rows[i] = get_by_id(rows, advisor_id, record_id)[1]
            THEN [rows[i] EXCEPT !.risk_profile = risk_profile]
            ELSE rows[i]]

\* BaseRepository.delete: session.delete on the instance get_by_id found
delete(rows, advisor_id, record_id) ==
    IF get_by_id(rows, advisor_id, record_id) = <<>> THEN rows
    ELSE SelectSeq(rows, LAMBDA r : r # get_by_id(rows, advisor_id, record_id)[1])

\* the advisor's rows that pass the optional risk_profile filter
Matching(rows, advisor_id, risk_profile) ==
    SelectSeq(rows, LAMBDA r :
        /\ r.advisor_id = advisor_id
        /\ risk_profile # None => r.risk_profile = risk_profile)

\* ClientRepository.get_clients: (items, total), newest first, one page
get_clients(rows, advisor_id, page, limit, risk_profile) ==
    LET ordered == Reverse(Matching(rows, advisor_id, risk_profile))
        offset  == (page - 1) * limit
        last    == IF offset + limit < Len(ordered) THEN offset + limit
                   ELSE Len(ordered)
    IN [items |-> SubSeq(ordered, offset + 1, last), total |-> Len(ordered)]

InitClients ==
    /\ RuntimeIdle
    /\ stored = <<>>
    /\ summaries = <<>>
    /\ mem = NoMemCall
    /\ pipeline = NoPipeline
    /\ dispatch = NoDispatch
    /\ clients = NoClients
    /\ http = NoReply
    /\ sessions = NoSessions
    /\ conversations = NoConversations
    /\ attempt = NoAttempt

ClientsFrame == UNCHANGED <<runtime, stored, summaries, mem, pipeline, dispatch,
                            sessions, conversations, attempt>>

Request(op, advisor_id, client_id, status) ==
    [op |-> op, advisor |-> advisor_id, client_id |-> client_id, status |-> status]

\* POST /clients
CreateClient(advisor_id, risk_profile) ==
    /\ clients.created < MaxClients
    /\ clients' = create(clients, advisor_id, risk_profile)
    /\ http' = Request("create", advisor_id, clients.created + 1, 201)
    /\ ClientsFrame

\* GET /clients/{client_id}
GetClient(advisor_id, client_id) ==
    /\ http' = Request("get", advisor_id, client_id,
                       IF get_by_id(clients.rows, advisor_id, client_id) = <<>>
                       THEN 404 ELSE 200)
    /\ UNCHANGED clients
    /\ ClientsFrame

\* PUT /clients/{client_id}
UpdateClient(advisor_id, client_id, risk_profile) ==
    /\ clients' = [clients EXCEPT
                     !.rows = update(@, advisor_id, client_id, risk_profile)]
    /\ http' = Request("update", advisor_id, client_id,
                       IF get_by_id(clients.rows, advisor_id, client_id) = <<>>
                       THEN 404 ELSE 200)
    /\ ClientsFrame

\* DELETE /clients/{client_id}
DeleteClient(advisor_id, client_id) ==
    /\ clients' = [clients EXCEPT !.rows = delete(@, advisor_id, client_id)]
    /\ http' = Request("delete", advisor_id, client_id,
                       IF get_by_id(clients.rows, advisor_id, client_id) = <<>>
                       THEN 404 ELSE 204)
    /\ ClientsFrame

\* GET /clients?page=&limit=&risk_profile=
ListClients(advisor_id, page, limit, risk_profile) ==
    /\ http' = [op |-> "list", advisor |-> advisor_id, status |-> 200,
                page |-> page, limit |-> limit, risk_profile |-> risk_profile,
                items |-> get_clients(clients.rows, advisor_id, page, limit,
                                      risk_profile).items,
                total |-> get_clients(clients.rows, advisor_id, page, limit,
                                      risk_profile).total]
    /\ UNCHANGED clients
    /\ ClientsFrame

NextClients ==
    \/ \E a \in Advisors, p \in RiskProfiles : CreateClient(a, p)
    \/ \E a \in Advisors, c \in 1..MaxClients : GetClient(a, c)
    \/ \E a \in Advisors, c \in 1..MaxClients, p \in RiskProfiles :
          UpdateClient(a, c, p)
    \/ \E a \in Advisors, c \in 1..MaxClients : DeleteClient(a, c)
    \/ \E a \in Advisors, g \in {1, 2}, l \in {1, DefaultLimit},
          p \in RiskProfiles \cup {None} : ListClients(a, g, l, p)

SpecClients == InitClients /\ [][NextClients]_vars

\* the rows of the table owned by an advisor, as a set
OwnedBy(rows, advisor_id) ==
    {rows[i] : i \in {j \in 1..Len(rows) : rows[j].advisor_id = advisor_id}}

Items(reply) == {reply.items[i] : i \in 1..Len(reply.items)}

\* the step serves get, update or delete on a client of another advisor
ForeignRequest ==
    /\ http'.op \in {"get", "update", "delete"}
    /\ \E i \in 1..Len(clients.rows) :
          /\ clients.rows[i].id = http'.client_id
          /\ clients.rows[i].advisor_id # http'.advisor

\* 404, nothing changed, and the owner still gets the client
ForeignRequestRefused ==
    ForeignRequest =>
        /\ http'.status = 404
        /\ clients' = clients
        /\ \A i \in 1..Len(clients.rows) :
              clients.rows[i].id = http'.client_id =>
                get_by_id(clients'.rows, clients.rows[i].advisor_id,
                          http'.client_id) = <<clients.rows[i]>>

\* a served request never changes a row of another advisor
OthersUntouched ==
    http'.op # "none" =>
        \A a \in Advisors \ {http'.advisor} :
            OwnedBy(clients'.rows, a) = OwnedBy(clients.rows, a)

\* C19 as stated: get, update or delete on another advisor's client answers
\* 404 and leaves it unchanged and visible to its owner, and every list
\* answer holds exactly the requester's own clients with a matching total.
C19_ScopedToRequester ==
    [][/\ ForeignRequestRefused
       /\ OthersUntouched
       /\ http'.op = "list" =>
            /\ Items(http') = OwnedBy(clients.rows, http'.advisor)
            /\ http'.total = Cardinality(OwnedBy(clients.rows, http'.advisor))]_vars

\* the requester's own clients that pass the request's risk_profile filter
OwnMatching(reply, rows) ==
    {r \in OwnedBy(rows, reply.advisor) :
        reply.risk_profile # None => r.risk_profile = reply.risk_profile}

\* the items are one page of the newest-first order of the matching clients
IsPage(reply, rows) ==
    LET offset == (reply.page - 1) * reply.limit
        rest   == Cardinality(OwnMatching(reply, rows)) - offset
    IN /\ Items(reply) \subseteq OwnMatching(reply, rows)
       /\ Len(reply.items) = IF rest < 0 THEN 0
                              ELSE IF rest < reply.limit THEN rest
                              ELSE reply.limit
       /\ \A i \in 1..Len(reply.items) :
             Cardinality({r \in OwnMatching(reply, rows) :
                            r.id > reply.items[i].id}) = offset + i - 1

\* C19 amended: as above for get, update and delete; a list answer holds
\* only the requester's own clients, namely the requested page, newest
\* first, of those passing the request's filter, and its total is the
\* number of the requester's own clients passing the filter.
C19_ScopedToRequesterAmended ==
    [][/\ ForeignRequestRefused
       /\ OthersUntouched
       /\ http'.op = "list" =>
            /\ IsPage(http', clients.rows)
            /\ http'.total = Cardinality(OwnMatching(http', clients.rows))]_vars

\* another advisor's client was asked for and refused while it exists
C19_Witness ==
    /\ http.op \in {"get", "update", "delete"}
    /\ http.status = 404
    /\ \E i \in 1..Len(clients.rows) :
          /\ clients.rows[i].id = http.client_id
          /\ clients.rows[i].advisor_id # http.advisor

\* a list answer shorter than the requester's own clients, both advisors
\* owning clients
C19_WitnessPage ==
    /\ http.op = "list"
    /\ Len(http.items) < http.total
    /\ \A a \in Advisors : OwnedBy(clients.rows, a) # {}

(***************************************************************************)
(* Concurrent chat turns: two connections, each a WebSocket message or an  *)
(* SSE request per turn, of two users, over one messages table             *)
(* (api/websocket/chat.py, api/v1/chat.py, agents/memory.py)               *)
(***************************************************************************)
MaxTurns == 3

Users == {"user_1", "user_2"}
Connections == {"conn_1", "conn_2"}

\* the user the connection's token authenticates
UserOf(conn) == IF conn = "conn_1" THEN "user_1" ELSE "user_2"

Conversation(id, user_id) == [id |-> id, user_id |-> user_id]

\* user_id of the conversation row, None without such a row
OwnerOf(rows, conversation_id) ==
    LET own == SelectSeq(rows, LAMBDA r : r.id = conversation_id)
    IN IF own = <<>> THEN None ELSE own[1].user_id

\* a conversation that is two messages short of should_summarize's threshold
LongHistory ==
    [i \in 1..(2 * MAX_SHORT_TERM_MESSAGES - 2) |->
        StoredMessage(MainConversation,
                      IF i % 2 = 1 THEN "user" ELSE "assistant", ToString(i))]

IdleSession ==
    [pc |-> "idle", entry |-> "none", conversation_id |-> None, content |-> "",
     reply |-> "", context |-> <<>>, fetched |-> <<>>, turns |-> 0,
     ended |-> "none"]

\* the turns the connections have started between them
TurnsStarted == sessions["conn_1"].turns + sessions["conn_2"].turns

InitSessions ==
    /\ RuntimeIdle
    /\ stored = LongHistory
    /\ summaries = <<>>
    /\ mem = NoMemCall
    /\ pipeline = NoPipeline
    /\ dispatch = NoDispatch
    /\ clients = NoClients
    /\ http = NoReply
    /\ sessions = [conn \in Connections |-> IdleSession]
    /\ conversations = <<Conversation(MainConversation, "user_1"),
                         Conversation(SideConversation, "user_2")>>
    /\ attempt = NoAttempt

SessionsFrame == UNCHANGED <<runtime, mem, pipeline, dispatch, clients, http,
                             conversations, attempt>>

\* the turn's message arrives with a conversation_id: save_message(role="user")
\* and commit
SessionReceive(conn, entry, conversation_id) ==
    /\ sessions[conn].pc = "idle"
    /\ TurnsStarted < MaxTurns
    /\ stored' = save_message(stored, conversation_id, "user",
                              ToString(Len(stored) + 1))
    /\ sessions' = [sessions EXCEPT ![conn] =
                      [@ EXCEPT !.pc = "received", !.entry = entry,
                                !.conversation_id = conversation_id,
                                !.content = ToString(Len(stored) + 1),
                                !.reply = "",
                                !.context = <<>>, !.fetched = <<>>,
                                !.turns = @ + 1, !.ended = "none"]]
    /\ UNCHANGED summaries
    /\ SessionsFrame

\* context_messages = await memory.get_conversation_context(conversation_id, db)
SessionContext(conn) ==
    /\ sessions[conn].pc = "received"
    /\ sessions' = [sessions EXCEPT ![conn] =
                      [@ EXCEPT !.pc = "streaming",
                                !.context = get_conversation_context(
                                    stored, summaries, sessions[conn].conversation_id,
                                    MAX_SHORT_TERM_MESSAGES)]]
    /\ UNCHANGED <<stored, summaries>>
    /\ SessionsFrame

\* the loop over orchestrator.process_stream ends, or an exception leaves it
SessionStream(conn, raised) ==
    /\ sessions[conn].pc = "streaming"
    /\ sessions' = [sessions EXCEPT ![conn] =
                      IF raised
                      THEN [@ EXCEPT !.pc = "idle", !.ended = "failed"]
                      ELSE [@ EXCEPT !.pc = "streamed"]]
    /\ UNCHANGED <<stored, summaries>>
    /\ SessionsFrame

\* save_message(role="assistant") and commit; the SSE endpoint passes
\* extra_data=, which save_message does not take
SessionSaveReply(conn) ==
    /\ sessions[conn].pc = "streamed"
    /\ IF sessions[conn].entry = "sse"
       THEN /\ sessions' = [sessions EXCEPT ![conn] =
                              [@ EXCEPT !.pc = "idle", !.ended = "failed"]]
            /\ UNCHANGED stored
       ELSE /\ stored' = save_message(stored, sessions[conn].conversation_id,
                                      "assistant", ToString(Len(stored) + 1))
            /\ sessions' = [sessions EXCEPT ![conn] =
                              [@ EXCEPT !.pc = "saved",
                                        !.reply = ToString(Len(stored) + 1)]]
    /\ UNCHANGED summaries
    /\ SessionsFrame

\* if await memory.should_summarize(...): summarize_conversation fetches the
\* messages and awaits the gateway
SessionCheck(conn) ==
    /\ sessions[conn].pc = "saved"
    /\ sessions' = [sessions EXCEPT ![conn] =
                      IF should_summarize(stored, sessions[conn].conversation_id)
                      THEN [@ EXCEPT !.pc = "summarizing",
                                     !.fetched = SummarizeFetch(
                                         stored, sessions[conn].conversation_id)]
                      ELSE [@ EXCEPT !.pc = "idle", !.ended = "completed"]]
    /\ UNCHANGED <<stored, summaries>>
    /\ SessionsFrame

\* the gateway answers the summarization prompt: the summary row is stored
\* and committed, or the exception ends the connection
SessionSummarized(conn, completion) ==
    /\ sessions[conn].pc = "summarizing"
    /\ IF completion.fail \/ ~completion.has_content
       THEN /\ summaries' = summaries
            /\ sessions' = [sessions EXCEPT ![conn] =
                              [@ EXCEPT !.pc = "idle", !.ended = "failed"]]
       ELSE /\ summaries' = Append(summaries,
                                   SummaryRow(sessions[conn].conversation_id,
                                              completion.text, sessions[conn].fetched))
            /\ sessions' = [sessions EXCEPT ![conn] =
                              [@ EXCEPT !.pc = "idle", !.ended = "completed"]]
    /\ UNCHANGED stored
    /\ SessionsFrame

NextSessions ==
    \/ \E conn \in Connections, entry \in {"ws", "sse"}, c \in Conversations :
          SessionReceive(conn, entry, c)
    \/ \E conn \in Connections : SessionContext(conn)
    \/ \E conn \in Connections, raised \in BOOLEAN : SessionStream(conn, raised)
    \/ \E conn \in Connections : SessionSaveReply(conn)
    \/ \E conn \in Connections : SessionCheck(conn)
    \/ \E conn \in Connections, g \in SummaryCompletions : SessionSummarized(conn, g)

SpecSessions == InitSessions /\ [][NextSessions]_vars

(***************************************************************************)
(* Properties of concurrent turns                                          *)
(***************************************************************************)
\* the connections inside summarize_conversation for the conversation
Summarizing(conversation_id) ==
    {conn \in Connections :
        /\ sessions[conn].pc = "summarizing"
        /\ sessions[conn].conversation_id = conversation_id}

\* C21: at any time at most one summarize_conversation call is in progress
\* for a conversation, however the turns on it interleave.
C21_OneSummarizationAtATime ==
    \A c \in Conversations : Cardinality(Summarizing(c)) <= 1

\* the connection's turn is on a conversation of another user
ForeignTurn(conn) ==
    /\ sessions[conn].pc # "idle"
    /\ OwnerOf(conversations, sessions[conn].conversation_id) # UserOf(conn)

\* the messages the connection's current turn has stored
StoredByTurn(conn) ==
    SelectSeq(stored, LAMBDA m :
        /\ m.conversation_id = sessions[conn].conversation_id
        /\ m.content = sessions[conn].content)

\* C29: a turn that carries the conversation_id of another user's
\* conversation neither loads that conversation's messages or summary into
\* the agent context nor stores a message in it.
C29_TurnsStayInOwnConversations ==
    \A conn \in Connections :
        ForeignTurn(conn) =>
            /\ sessions[conn].context = <<>>
            /\ StoredByTurn(conn) = <<>>

(***************************************************************************)
(* Properties of the transcript (BaseAgent.run and run_stream)             *)
(***************************************************************************)
\* position of the last tool-invocation message, 0 if there is none
LastProposal(messages, from) ==
    LET at == {i \in from..Len(messages) : messages[i].role = "assistant"}
    IN IF at = {} THEN 0 ELSE CHOOSE i \in at : \A j \in at : j <= i

\* system instruction, the session window in its order, the new user
\* message; then blocks of one tool-invocation message followed by one tool
\* message per proposed invocation, in the order proposed, the last block
\* lacking exactly the invocations still pending
TranscriptShape(r, message) ==
    LET m == r.messages
        n == Len(context.session_messages)
        a == LastProposal(m, n + 3)
    IN /\ Len(m) >= n + 2
       /\ m[1].role = "system"
       /\ \A i \in 1..n : m[i + 1] = context.session_messages[i]
       /\ m[n + 2] = [role |-> "user", content |-> message]
       /\ Len(m) > n + 2 => m[n + 3].role = "assistant"
       /\ \A i \in (n + 3)..Len(m) :
             /\ m[i].role \in {"assistant", "tool"}
             /\ m[i].role = "assistant" =>
                   /\ m[i].tool_calls # <<>>
                   /\ \A j \in 1..Len(m[i].tool_calls) :
                         i + j <= Len(m) =>
                           /\ m[i + j].role = "tool"
                           /\ m[i + j].tool_call_id = m[i].tool_calls[j].id
                   /\ i + Len(m[i].tool_calls) < Len(m) =>
                         m[i + Len(m[i].tool_calls) + 1].role = "assistant"
       /\ a # 0 => Len(m) - a = Len(m[a].tool_calls) - Len(r.pending)
       /\ a = 0 => r.pending = <<>>

\* C22: the transcript starts with the system instruction, the session
\* window in its order and the new user message; each tool round appends the
\* tool-invocation message and then one tool message per invocation, in the
\* order proposed, one at a time; what is in the transcript stays in place.
C22_TranscriptOrder ==
    /\ [](/\ run.pc # "idle" => TranscriptShape(run, "hello")
          /\ stm.pc # "idle" => TranscriptShape(stm, "hello"))
    /\ [][/\ run.pc # "idle" =>
               /\ IsPrefix(run.messages, run'.messages)
               /\ Len(run'.messages) <= Len(run.messages) + 1
          /\ stm.pc # "idle" =>
               /\ IsPrefix(stm.messages, stm'.messages)
               /\ Len(stm'.messages) <= Len(stm.messages) + 1]_vars

\* a run over a non-empty session window that dispatched a round of two
\* invocations, the first of which failed
C22_Witness ==
    /\ run.pc = "returned"
    /\ context.session_messages # <<>>
    /\ Len(run.dispatched) >= 2
    /\ run.dispatched[1].raised
    /\ Len(run.messages) >= Len(context.session_messages) + 5

(***************************************************************************)
(* Properties of the turn's phases                                         *)
(***************************************************************************)
PhaseRank(pc) ==
    CASE pc = "idle" -> 0
      [] pc = "classifying" -> 1
      [] pc = "routing" -> 2
      [] pc = "executing" -> 3
      [] OTHER -> 4

\* the agent's run or run_stream has raised
ExecutingFailed == run.pc = "raised" \/ stm.pc = "raised"

\* the caller of the turn has been told of the failure: the exception
\* reaches a direct caller, an error event reaches an endpoint's client
FailureReported ==
    IF turn.entry \in {"process", "process_stream"}
    THEN turn.error = "raised"
    ELSE ClientErrors # <<>>

\* C23: a turn moves through Idle, Classifying, Routing, Executing and then
\* Completed or Failed and never back; at most one agent run is started per
\* turn; a failure in Executing is not retried and ends the turn in Failed
\* with the failure reported to the caller.
C23_PhasesInOrder ==
    /\ [](/\ ~(run.pc # "idle" /\ stm.pc # "idle")
          /\ ExecutingFailed =>
                /\ turn.pc \in {"executing", "failed"}
                /\ (turn.pc = "failed" /\ turn.error # "disconnected")
                      => FailureReported)
    /\ [][/\ PhaseRank(turn'.pc) >= PhaseRank(turn.pc)
          /\ PhaseRank(turn.pc) = 4 => turn'.pc = turn.pc
          /\ run.pc # "idle" => run'.pc # "idle" /\ IsPrefix(run.calls, run'.calls)
          /\ stm.pc # "idle" => stm'.pc # "idle" /\ IsPrefix(stm.calls, stm'.calls)
          /\ run.pc = "raised" => run' = run
          /\ stm.pc = "raised" => stm' = stm]_vars

(***************************************************************************)
(* Properties of the classification result                                 *)
(***************************************************************************)
\* the types of the entities in a sequence of entities
TypesOf(entities) == {entities[i].type : i \in 1..Len(entities)}

\* the gateway answered the sub-task with JSON
Answered(task) ==
    /\ task \in DOMAIN pipeline.replies
    /\ ~Failed(pipeline.replies[task])

Saves(conn) ==
    \/ sessions[conn].pc = "idle" /\ sessions'[conn].pc = "received"
    \/ sessions[conn].pc = "streamed" /\ sessions'[conn].pc = "saved"

\* the assistant message of the connection's turn is in the table
ReplyStored(conn) ==
    \E i \in 1..Len(stored) :
        /\ stored[i].conversation_id = sessions[conn].conversation_id
        /\ stored[i].role = "assistant"
        /\ stored[i].content = sessions[conn].reply

\* C25: save_message adds exactly one Message, to the given conversation,
\* and leaves the stored messages and the summaries as they are; it starts
\* no summarization, which only the caller starts, after the turn's
\* assistant message is stored.
C25_SaveOnlyAppends ==
    [][/\ \A conn \in Connections :
            Saves(conn) =>
                /\ Len(stored') = Len(stored) + 1
                /\ IsPrefix(stored, stored')
                /\ Last(stored').conversation_id = sessions'[conn].conversation_id
                /\ summaries' = summaries
                /\ \A other \in Connections :
                      sessions'[other].pc = "summarizing"
                          => sessions[other].pc = "summarizing"
       /\ stored' # stored => \E conn \in Connections : Saves(conn)
       /\ \A conn \in Connections :
            (sessions'[conn].pc = "summarizing" /\ sessions[conn].pc # "summarizing")
                => sessions[conn].pc = "saved" /\ ReplyStored(conn)
       /\ summaries' # summaries =>
            /\ stored' = stored
            /\ \E conn \in Connections :
                  sessions[conn].pc = "summarizing" /\ ReplyStored(conn)]_vars

\* a turn whose messages were saved ended with a stored summary
C25_Witness ==
    /\ summaries # <<>>
    /\ Len(stored) > Len(LongHistory) + 2
    /\ \E conn \in Connections :
          /\ sessions[conn].ended = "completed"
          /\ ReplyStored(conn)

(***************************************************************************)
(* Coverage of the stored messages by context and summary                  *)
(***************************************************************************)
\* positions of the messages get_conversation_context returns
InContext(messages, conversation_id) ==
    LET own == PositionsOf(messages, conversation_id)
    IN {own[i] : i \in {j \in 1..Len(own) : j > Len(own) - MAX_SHORT_TERM_MESSAGES}}

\* positions of the messages behind the summary get_conversation_context
\* prepends
InSummary(rows, conversation_id) ==
    LET own == SummariesOf(rows, conversation_id)
    IN IF own = <<>> \/ _get_latest_summary(rows, conversation_id) = ""
       THEN {}
       ELSE {own[Len(own)].source[i] : i \in 1..Len(own[Len(own)].source)}

\* C26: after a turn and its summarization check, every stored message of
\* the conversation is among the messages of the context or among those the
\* prepended summary covers.
C26_NothingForgotten ==
    mem.op = "after_turn" =>
        \A i \in 1..Len(stored) :
            stored[i].conversation_id = mem.conversation_id =>
                \/ i \in InContext(stored, mem.conversation_id)
                \/ i \in InSummary(summaries, mem.conversation_id)

(***************************************************************************)
(* The new user message in the transcript of an endpoint's turn            *)
(***************************************************************************)
\* the entries of the transcript that are the turn's user message
NewUserMessages(messages) ==
    SelectSeq(messages, LAMBDA m : m.role = "user" /\ m.content = turn.message)

\* C27: in a turn of the WebSocket or the SSE endpoint the transcript sent
\* to the gateway holds the turn's new user message exactly once.
C27_UserMessageOnce ==
    (turn.entry \in {"ws", "sse"} /\ stm.calls # <<>>)
        => Len(NewUserMessages(stm.messages)) = 1

(***************************************************************************)
(* The end of an SSE turn                                                  *)
(***************************************************************************)
StreamEndsSent == SelectSeq(client, LAMBDA e : e.type = "stream_end")

\* C28: an SSE turn whose agent stream reached stream_end has, when it is
\* over, stored exactly one assistant message for the turn and then sent
\* exactly one stream_end event, its last event.
C28_SseTurnPersistsAndEnds ==
    (/\ turn.entry = "sse"
     /\ StreamEndReceived
     /\ turn.pc \in {"completed", "summarizing", "failed"})
    => /\ Len(PersistedReplies(stored)) = Len(PersistedReplies(PriorHistory)) + 1
       /\ Len(StreamEndsSent) = 1
       /\ Last(client).type = "stream_end"

(***************************************************************************)
(* chat_completion (utils/openai_client.py): the gateway request and its   *)
(* retries                                                                 *)
(***************************************************************************)
\* for attempt in range(3)
Attempts == 3

\* wait = 2 ** attempt, in seconds
BackoffDoubled(n) == 2 ^ (n + 1)

Backoff(n) == 2 ^ n

\* what client.chat.completions.create does in one attempt
GatewayOutcome(ok, value) == [ok |-> ok, value |-> value]

GatewayOutcomes ==
    { GatewayOutcome(TRUE, "response_a"), GatewayOutcome(TRUE, "response_b"),
      GatewayOutcome(FALSE, "timeout"), GatewayOutcome(FALSE, "rate_limit") }

\* kwargs: tools and tool_choice are set only for a non-empty tools list
CompletionKwargs(stream, tools) ==
    [stream |-> stream, tools |-> tools,
     tool_choice |-> IF tools # <<>> THEN "auto" ELSE None]

InitCompletion ==
    /\ RuntimeIdle
    /\ stored = <<>>
    /\ summaries = <<>>
    /\ mem = NoMemCall
    /\ pipeline = NoPipeline
    /\ dispatch = NoDispatch
    /\ clients = NoClients
    /\ http = NoReply
    /\ sessions = NoSessions
    /\ conversations = NoConversations
    /\ attempt = NoAttempt

CompletionFrame == UNCHANGED <<runtime, stored, summaries, mem, pipeline, dispatch,
                               clients, http, sessions, conversations>>

\* chat_completion is called: kwargs are built and the loop is entered
CompletionCall(stream, tools) ==
    /\ attempt.pc = "idle"
    /\ attempt' = [pc |-> "calling", attempt |-> 0,
                   kwargs |-> CompletionKwargs(stream, tools),
                   requests |-> <<>>, outcomes |-> <<>>, slept |-> <<>>,
                   value |-> None]
    /\ CompletionFrame

\* one pass of the loop body: the request returns or raises
CompletionAttempt(outcome) ==
    /\ attempt.pc = "calling"
    /\ LET tried == [attempt EXCEPT !.requests = Append(@, attempt.kwargs),
                                    !.outcomes = Append(@, outcome)]
       IN attempt' =
            IF outcome.ok
            THEN [tried EXCEPT !.pc = "returned", !.value = outcome.value]
            ELSE IF attempt.attempt = Attempts - 1
            THEN [tried EXCEPT !.pc = "raised", !.value = outcome.value]
            ELSE [tried EXCEPT !.pc = "sleeping",
                               !.slept = Append(@, Backoff(attempt.attempt))]
    /\ CompletionFrame

\* asyncio.sleep(wait) is over: the next pass of the loop
CompletionWake ==
    /\ attempt.pc = "sleeping"
    /\ attempt' = [attempt EXCEPT !.pc = "calling", !.attempt = @ + 1]
    /\ CompletionFrame

NextCompletion ==
    \/ \E stream \in BOOLEAN, tools \in {<<>>, <<"get_client_profile">>} :
          CompletionCall(stream, tools)
    \/ \E outcome \in GatewayOutcomes : CompletionAttempt(outcome)
    \/ CompletionWake

SpecCompletion == InitCompletion /\ [][NextCompletion]_vars

(***************************************************************************)
(* Properties of chat_completion                                           *)
(***************************************************************************)
\* the attempts that raised
Failures(outcomes) == SelectSeq(outcomes, LAMBDA o : ~o.ok)

\* C30: at most three attempts; the first successful response is returned
\* with no further attempt; 1 s of backoff after the first failure and 2 s
\* after the second; the third failure is raised without a further wait.
C30_Inv ==
    attempt.pc # "idle" =>
        /\ Len(attempt.outcomes) <= 3
        /\ IsPrefix(attempt.slept, <<1, 2>>)
        /\ \A i \in 1..(Len(attempt.outcomes) - 1) : ~attempt.outcomes[i].ok
        /\ attempt.pc = "calling" =>
              /\ Len(attempt.slept) = Len(attempt.outcomes)
              /\ Len(attempt.outcomes) < 3
        /\ attempt.pc = "sleeping" =>
              /\ Len(attempt.slept) = Len(attempt.outcomes)
              /\ ~Last(attempt.outcomes).ok
        /\ attempt.pc = "returned" =>
              /\ Last(attempt.outcomes).ok
              /\ attempt.value = Last(attempt.outcomes).value
              /\ Len(attempt.slept) = Len(attempt.outcomes) - 1
        /\ attempt.pc = "raised" =>
              /\ Len(Failures(attempt.outcomes)) = 3
              /\ attempt.value = attempt.outcomes[3].value
              /\ attempt.slept = <<1, 2>>

C30_ThreeAttemptsWithBackoff ==
    /\ []C30_Inv
    /\ [][attempt.pc \in {"returned", "raised"} => attempt' = attempt]_vars

\* a call that raised the third failure, the failures being different errors
C30_Witness ==
    /\ attempt.pc = "raised"
    /\ attempt.outcomes[1].value # attempt.outcomes[3].value
    /\ attempt.kwargs.tool_choice = "auto"

\* a call that returned the response of its third attempt
C30_WitnessThirdAttempt ==
    /\ attempt.pc = "returned"
    /\ Len(attempt.outcomes) = 3

====
